---- MODULE Spec2Model ----
(***************************************************************************)
(* Model of the three plugins of nrdot-mvp.                                *)
(*                                                                         *)
(* Adaptive Priority Queue (plugins/apq/plugin.go): per-class FIFO queues, *)
(* weighted round-robin dequeue, spill to a sink when less than 5% of the  *)
(* capacity is free, and the blocking dequeue with its polling helper      *)
(* goroutine.  File-backed dead-letter queue (the dlq package): segment    *)
(* files with a header, StoreItem, rotation, verification and the replay   *)
(* worker.  Cardinality limiter (the cardinalitylimiter processor): key    *)
(* table, scores, drop and aggregate decisions.                            *)
(*                                                                         *)
(* Class indices are 0-based as in the Go code; TLA+ sequences are         *)
(* 1-based, so class c lives at position c+1 of queues, weights, ...       *)
(* Strings are sequences of characters.  A queued item is a record         *)
(* [id, str]: str is the item's %v rendering (the bytes the queue must not *)
(* change), id is the number of the Enqueue call that offered it and       *)
(* stands for the identity of the Go value.                                *)
(***************************************************************************)
EXTENDS Integers, Sequences, FiniteSets, TLC

VARIABLES
    capacity,         \* q.capacity
    weights,          \* q.weights
    classPatterns,    \* q.classPatterns
    classNames,       \* q.classNames
    queues,           \* q.queues
    currentClass,     \* q.currentClass
    remainingTokens,  \* q.remainingTokens
    spillFunc,        \* q.spillFunc: "nil" or "sink"
    spillTotal,       \* apq_spill_total{class}
    fillRatio,        \* apq_fill_ratio, as <<numerator, denominator>>
    classSize,        \* apq_class_size{class}
    nEnq,             \* number of Enqueue calls made so far
    nDeq,             \* number of Dequeue calls made so far
    last,             \* the last completed Enqueue/Dequeue call and its result
    admitted,         \* items appended to a class queue, in order
    dequeued,         \* [item, cls] of every successful Dequeue, in order
    sinkLog,          \* [item, ok] of every spillFunc invocation, in order
    window,           \* classes served by the latest run of Dequeue calls that
                      \* all found every class non-empty
    unserved,         \* per class, the Dequeue calls made in a row that found
                      \* the class non-empty and did not serve it
    ctxDone,          \* DequeueBlocking: ctx has been cancelled
    dbPc,             \* DequeueBlocking: position of the caller
    helperPc,         \* DequeueBlocking: position of the polling goroutine
    dbRet,            \* DequeueBlocking: what the call returned
    files,            \* DLQ directory: segment name -> file
    now,              \* wall clock, in seconds
    phase,            \* DLQ process: "new", "running", "stopped", "down"
    currentSegment,   \* fs.currentSegment: <<>> (nil) or the name of the open file
    currentSize,      \* fs.currentSize
    currentItemCount, \* fs.currentItemCount
    writePos,         \* the offset of the handle fs.currentSegment, as the number
                      \* of record cells between the header and it
    hasher,           \* fs.hasher: the bytes written to it so far
    replayQueue,      \* fs.replayQueue
    replayActive,     \* fs.replayActive
    replayCancel,     \* fs.replayCancel: 0 (nil) or the worker whose context it cancels
    workers,          \* the replayLoop goroutines started so far
    corruptedTotal,   \* dlq_corrupted_total
    utilizationRatio, \* dlq_utilization_ratio, as <<numerator, denominator>>
    oldestAgeSeconds, \* dlq_oldest_age_seconds
    nStore,           \* number of StoreItem calls made so far
    nReplay,          \* number of StartReplay calls made so far
    nStart,           \* number of process starts so far
    stored,           \* [item, seg] of every record StoreItem wrote, in order
    sendLog,          \* [w, seg, item, ok] of every callback invocation, in order
    replayLog,        \* [w, seg, active, done, err] of every processSomeItems call
    dlqLast,          \* the result of verifySegments, StartReplay or StopReplay
                      \* when it was the last call made
    crashLog,         \* the last crash: the process killed and the complete
                      \* records that were on disk
    keyMap,           \* CL: p.keyMap
    droppedSamples,   \* CL: cl_dropped_samples_total{metric}
    keysUsed,         \* CL: cl_keys_used
    calls,            \* CL: the processMetrics calls in progress
    returned,         \* CL: the batches processMetrics returned
    pconfig,          \* CL: p.config
    startup           \* CL: the Config the collector loaded, whether a
                      \* processor was created from it, and the error reported

apqVars   == <<capacity, weights, classPatterns, classNames, queues,
               currentClass, remainingTokens, spillFunc, spillTotal,
               fillRatio, classSize>>
ghostVars == <<nEnq, nDeq, last, admitted, dequeued, sinkLog, window, unserved>>
blockVars == <<ctxDone, dbPc, helperPc, dbRet>>
dlqVars   == <<files, now, phase, currentSegment, currentSize, currentItemCount, writePos,
               hasher, replayQueue, replayActive, replayCancel, workers,
               corruptedTotal, utilizationRatio, oldestAgeSeconds>>
dlqGhost  == <<nStore, nReplay, nStart, stored, sendLog, replayLog, dlqLast, crashLog>>
clVars    == <<keyMap, droppedSamples, keysUsed, calls, returned, pconfig, startup>>
queueVars == <<apqVars, ghostVars, blockVars>>
vars      == <<apqVars, ghostVars, blockVars, dlqVars, dlqGhost, clVars>>

----------------------------------------------------------------------------
(* Bounds of the model *)

MaxEnq == 4       \* Enqueue calls in Spec
MaxDeq == 4       \* Dequeue calls in Spec
MaxEnqW == 7      \* Enqueue calls in SpecWRR
MaxDeqW == 6      \* Dequeue calls in SpecWRR
MaxEnqS2 == 22    \* Enqueue calls in SpecS2 (capacity 20 is filled and overrun)
MaxDeqS2 == 2     \* Dequeue calls in SpecS2
MaxEnqB == 2      \* Enqueue calls in SpecBlocking
MaxDeqB == 4      \* Dequeue calls, direct or by DequeueBlocking, in SpecBlocking
MaxEnqK == 3      \* Enqueue calls in SpecWake
MaxNow == 2       \* seconds on the clock
MaxStart == 2     \* process starts
MaxStore == 3     \* StoreItem calls in SpecStore, completed or cut short by a crash
MaxStoreR == 2    \* StoreItem calls in SpecReplay
MaxCorrupted == 2 \* dlq_corrupted_total up to which the verification loop runs
MaxStartReplay == 2  \* StartReplay calls
MaxTicks == 2     \* token ticks the replay workers receive
MaxToggles == 1   \* toggle ticks the replay workers receive
MaxFailAt == 1    \* the callback of a processSomeItems call that may fail
MaxBatches == 3   \* processMetrics calls in SpecCL

----------------------------------------------------------------------------
(* Strings and patterns.  The model covers the regular expressions that    *)
(* are alternations of literals ("high|critical") and ".*": a pattern is   *)
(* the sequence of its alternatives, and ".*", which matches every string, *)
(* is the single empty alternative.  regexp.MatchString is unanchored: it  *)
(* reports whether some substring of the input matches.                    *)

IsSubstring(lit, s) ==
    \E k \in 0..(Len(s) - Len(lit)) : SubSeq(s, k + 1, k + Len(lit)) = lit

MatchString(pattern, s) ==
    \E a \in 1..Len(pattern) : IsSubstring(pattern[a], s)

DotStar == << <<>> >>
PatA    == << <<"a">> >>
PatB    == << <<"b">> >>

\* fmt.Sprintf("%v", item) of a string item is the string itself
Sprintf(item) == item.str

\* The items offered in Spec: one matching both patterns of ConfigSmall, one
\* matching the second only, one matching none
Payloads == { <<"a", "b">>, <<"b">>, <<"c">> }

----------------------------------------------------------------------------
(* Construction *)

DefaultClasses == << [Name |-> "default", Weight |-> 1, Pattern |-> DotStar] >>

\* Scenario S1 of the specification: classes [A weight 3, B weight 1], capacity 100
ConfigS1 == [capacity |-> 100,
             classes  |-> << [Name |-> "A", Weight |-> 3, Pattern |-> PatA],
                             [Name |-> "B", Weight |-> 1, Pattern |-> PatB] >>]

\* A small queue that fills up within the bounds
ConfigSmall == [capacity |-> 2,
                classes  |-> << [Name |-> "A", Weight |-> 2, Pattern |-> PatA],
                                [Name |-> "B", Weight |-> 1, Pattern |-> PatB] >>]

\* Scenario S2 of the specification: capacity 20, one class normal of weight 1
ConfigS2 == [capacity |-> 20,
             classes  |-> << [Name |-> "normal", Weight |-> 1, Pattern |-> DotStar] >>]

NoItem == [id |-> 0, str |-> << >>]
NoCall == [op |-> "none", item |-> NoItem, err |-> "nil", cls |-> -1,
           total |-> 0, spilled |-> FALSE]

NewAdaptivePriorityQueue(cfg) ==
    LET classes == IF Len(cfg.classes) = 0 THEN DefaultClasses ELSE cfg.classes
        n       == Len(classes)
    IN  /\ cfg.capacity > 0
        /\ \A i \in 1..n : classes[i].Weight > 0
        /\ capacity = cfg.capacity
        /\ weights = [i \in 1..n |-> classes[i].Weight]
        /\ classPatterns = [i \in 1..n |-> classes[i].Pattern]
        /\ classNames = [i \in 1..n |-> classes[i].Name]
        /\ queues = [i \in 1..n |-> << >>]
        /\ currentClass = 0
        /\ remainingTokens = 0
        /\ spillFunc = "nil"
        /\ spillTotal = [nm \in {classes[i].Name : i \in 1..n} |-> 0]
        /\ fillRatio = <<0, cfg.capacity>>
        /\ classSize = [nm \in {classes[i].Name : i \in 1..n} |-> 0]

GhostInit ==
    /\ nEnq = 0
    /\ nDeq = 0
    /\ last = NoCall
    /\ admitted = << >>
    /\ dequeued = << >>
    /\ sinkLog = << >>
    /\ window = << >>
    /\ unserved = << >>

BlockInit ==
    /\ ctxDone = FALSE
    /\ dbPc = "idle"
    /\ helperPc = "none"
    /\ dbRet = [item |-> NoItem, err |-> "none"]

----------------------------------------------------------------------------
(* Helpers of the queue *)

NumClasses == Len(queues)

RECURSIVE SumLens(_, _)
SumLens(qs, i) == IF i = 0 THEN 0 ELSE Len(qs[i]) + SumLens(qs, i - 1)

\* getTotalSize: the sum of all queue sizes
getTotalSize(qs) == SumLens(qs, Len(qs))

Size == getTotalSize(queues)

\* A spill condition that only looks at a full queue
NeedSpill_FullOnly(freeSlots, cap) == freeSlots < 0

\* A spill condition with the comparison made non-strict
NeedSpill_NonStrict(freeSlots, cap) == 20 * freeSlots <= cap

\* float64(freeSlots)/float64(q.capacity) < 0.05.  Both the quotient and the
\* constant 0.05 are correctly rounded float64 values, and for capacities
\* below 2^40 two distinct ratios freeSlots/capacity and 1/20 differ by more
\* than an ulp, so the comparison agrees with the exact 20*freeSlots < capacity.
NeedSpill(freeSlots, cap) == 20 * freeSlots < cap

\* A classifier whose default is class 0 instead of the last class
classifyFrom_DefaultFirst(patterns, s, i) ==
    LET hits == {j \in (i + 1)..Len(patterns) : MatchString(patterns[j], s)}
    IN  IF hits = {} THEN 0 ELSE (CHOOSE j \in hits : \A k \in hits : j <= k) - 1

\* The loop of classifyItem from class i on: the first class whose pattern
\* matches, len(q.queues)-1 when the loop ends without a match
RECURSIVE classifyFrom(_, _, _)
classifyFrom(patterns, s, i) ==
    IF i >= Len(patterns) THEN Len(patterns) - 1
    ELSE IF MatchString(patterns[i + 1], s) THEN i
    ELSE classifyFrom(patterns, s, i + 1)

classifyItem(item) == classifyFrom(classPatterns, Sprintf(item), 0)

\* a spill counter bumped before the sink's answer is looked at
SpillTotalAfter_CountFirst(st, name, sinkOk) == [st EXCEPT ![name] = @ + 1]

\* err := q.spillFunc(item); if err != nil { return ... };
\* q.spillTotal.WithLabelValues(name).Inc()
SpillTotalAfter(st, name, sinkOk) ==
    IF sinkOk THEN [st EXCEPT ![name] = @ + 1] ELSE st

\* append at the head instead of the tail
PushTail_Front(q, item) == <<item>> \o q

\* q.queues[classIdx] = append(q.queues[classIdx], item)
PushTail(q, item) == Append(q, item)

\* a pop that returns the head but leaves it queued
PopHead_Keep(q) == q

\* q.queues[selectedClass] = q.queues[selectedClass][1:]
PopHead(q) == Tail(q)

\* updateMetrics: the gauges after the queues became qs
FillRatioOf(qs) == <<getTotalSize(qs), capacity>>
ClassSizeOf(qs) ==
    [nm \in DOMAIN classSize |->
        IF \E i \in 1..Len(qs) : classNames[i] = nm
        THEN Len(qs[CHOOSE i \in 1..Len(qs) :
                      /\ classNames[i] = nm
                      /\ \A j \in 1..Len(qs) : classNames[j] = nm => j <= i])
        ELSE classSize[nm]]

----------------------------------------------------------------------------
(* Weighted round robin *)

\* The search loop of selectPriorityClass: step to the next class with
\* wrap-around; stop on coming back to initialClass, or on a non-empty class
RECURSIVE FindNext(_, _)
FindNext(cur, initialClass) ==
    LET nxt == (cur + 1) % NumClasses
    IN  IF nxt = initialClass THEN nxt
        ELSE IF Len(queues[nxt + 1]) > 0 THEN nxt
        ELSE FindNext(nxt, initialClass)

\* a refill that counts the pick being made twice
RefillTokens_Twice(w) == w - 2

\* a refill that forgets the pick being made
RefillTokens_Full(w) == w

\* remainingTokens after moving to a class of weight w: the pick being made
\* uses one token
RefillTokens(w) == w - 1

\* selectPriorityClass: the class to serve and the scheduler state it leaves
selectPriorityClass ==
    IF remainingTokens > 0
    THEN [cls |-> currentClass, cur |-> currentClass, tok |-> remainingTokens - 1]
    ELSE LET c == FindNext(currentClass, currentClass)
         IN  [cls |-> c, cur |-> c, tok |-> RefillTokens(weights[c + 1])]

----------------------------------------------------------------------------
(* Operations *)

\* SetSpillFunc(f)
SetSpillFunc(f) ==
    /\ spillFunc # f
    /\ spillFunc' = f
    /\ UNCHANGED <<capacity, weights, classPatterns, classNames, queues,
                   currentClass, remainingTokens, spillTotal, fillRatio, classSize>>
    /\ UNCHANGED ghostVars
    /\ UNCHANGED <<blockVars, dlqVars, dlqGhost, clVars>>

\* Enqueue(item), the sink answering sinkOk when it is invoked
Enqueue(s, sinkOk) ==
    LET item       == [id |-> nEnq + 1, str |-> s]
        classIdx   == classifyItem(item)
        totalItems == getTotalSize(queues)
        freeSlots  == capacity - totalItems
        call       == [op |-> "Enqueue", item |-> item, cls |-> classIdx,
                       total |-> totalItems]
    IN  /\ nEnq' = nEnq + 1
        /\ IF NeedSpill(freeSlots, capacity)
           THEN IF spillFunc # "nil"
                THEN /\ sinkLog' = Append(sinkLog, [item |-> item, ok |-> sinkOk])
                     /\ spillTotal' =
                            SpillTotalAfter(spillTotal, classNames[classIdx + 1], sinkOk)
                     /\ last' = IF sinkOk
                                THEN call @@ [err |-> "nil", spilled |-> TRUE]
                                ELSE call @@ [err |-> "failed to spill item",
                                              spilled |-> FALSE]
                     /\ UNCHANGED <<queues, fillRatio, classSize, admitted>>
                ELSE /\ sinkOk
                     /\ last' = call @@ [err |-> "queue full and no spill function defined",
                                         spilled |-> FALSE]
                     /\ UNCHANGED <<queues, fillRatio, classSize, admitted,
                                    sinkLog, spillTotal>>
           ELSE /\ sinkOk
                /\ queues' = [queues EXCEPT ![classIdx + 1] = PushTail(@, item)]
                /\ fillRatio' = FillRatioOf(queues')
                /\ classSize' = ClassSizeOf(queues')
                /\ admitted' = Append(admitted, item)
                /\ last' = call @@ [err |-> "nil", spilled |-> FALSE]
                /\ UNCHANGED <<sinkLog, spillTotal>>
        /\ UNCHANGED <<capacity, weights, classPatterns, classNames,
                       currentClass, remainingTokens, spillFunc>>
        /\ UNCHANGED <<nDeq, dequeued, window, unserved>>

\* unserved after a Dequeue call that served class cls (-1: it served none)
Waiting(cls) ==
    [i \in 1..NumClasses |->
        IF i = cls + 1 \/ Len(queues[i]) = 0 THEN 0
        ELSE (IF i \in DOMAIN unserved THEN unserved[i] ELSE 0) + 1]

\* The effect of Dequeue() on the queue and the history; res is what it returns
DequeueBody(res) ==
    LET total == getTotalSize(queues)
        full  == \A i \in 1..NumClasses : Len(queues[i]) > 0
        call  == [op |-> "Dequeue", total |-> total, spilled |-> FALSE]
    IN  /\ nDeq' = nDeq + 1
        /\ IF total = 0
           THEN /\ res = [item |-> NoItem, err |-> "queue is empty"]
                /\ last' = call @@ [item |-> NoItem, err |-> "queue is empty", cls |-> -1]
                /\ window' = << >>
                /\ unserved' = Waiting(-1)
                /\ UNCHANGED <<queues, currentClass, remainingTokens,
                               fillRatio, classSize, dequeued>>
           ELSE LET sel == selectPriorityClass
                IN  /\ currentClass' = sel.cur
                    /\ remainingTokens' = sel.tok
                    /\ IF Len(queues[sel.cls + 1]) = 0
                       THEN /\ res = [item |-> NoItem, err |-> "selected queue is empty"]
                            /\ last' = call @@ [item |-> NoItem,
                                                err |-> "selected queue is empty",
                                                cls |-> sel.cls]
                            /\ window' = << >>
                            /\ unserved' = Waiting(-1)
                            /\ UNCHANGED <<queues, fillRatio, classSize, dequeued>>
                       ELSE LET item == Head(queues[sel.cls + 1])
                            IN  /\ res = [item |-> item, err |-> "nil"]
                                /\ queues' = [queues EXCEPT ![sel.cls + 1] = PopHead(@)]
                                /\ fillRatio' = FillRatioOf(queues')
                                /\ classSize' = ClassSizeOf(queues')
                                /\ dequeued' = Append(dequeued,
                                                      [item |-> item, cls |-> sel.cls])
                                /\ last' = call @@ [item |-> item, err |-> "nil",
                                                    cls |-> sel.cls]
                                /\ window' = IF full THEN Append(window, sel.cls)
                                             ELSE << >>
                                /\ unserved' = Waiting(sel.cls)
        /\ UNCHANGED <<capacity, weights, classPatterns, classNames,
                       spillFunc, spillTotal>>
        /\ UNCHANGED <<nEnq, admitted, sinkLog>>

\* Dequeue() called directly by a consumer
Dequeue ==
    /\ \E item \in {NoItem} \cup UNION {{queues[i][j] : j \in 1..Len(queues[i])}
                                       : i \in 1..NumClasses},
          err \in {"nil", "queue is empty", "selected queue is empty"} :
          DequeueBody([item |-> item, err |-> err])
    /\ UNCHANGED <<blockVars, dlqVars, dlqGhost, clVars>>

----------------------------------------------------------------------------
(* DequeueBlocking(ctx).  The caller creates a condition variable that only *)
(* it and the goroutine it starts can reach, then loops: try Dequeue; on an *)
(* error, return if ctx is done, otherwise cond.Wait().  The goroutine      *)
(* loops on a select between ctx.Done() and a 50 ms timer; on the timer it  *)
(* reads q.Size() and calls cond.Signal() when the size is positive.        *)
(* cond.Signal() wakes the caller only if it is inside cond.Wait().         *)

ResultSet ==
    [item : {NoItem} \cup UNION {{queues[i][j] : j \in 1..Len(queues[i])}
                                 : i \in 1..NumClasses},
     err  : {"nil", "queue is empty", "selected queue is empty"}]

\* the call is made: the goroutine is started and the caller enters its loop
DBCall ==
    /\ dbPc = "idle"
    /\ dbPc' = "dequeue"
    /\ helperPc' = "poll"
    /\ UNCHANGED <<ctxDone, dbRet>>
    /\ UNCHANGED <<dlqVars, dlqGhost, clVars>>
    /\ UNCHANGED apqVars
    /\ UNCHANGED ghostVars

\* item, err := q.Dequeue(); if err == nil { return item, nil }
DBDequeue ==
    /\ dbPc = "dequeue"
    /\ \E res \in ResultSet :
          /\ DequeueBody(res)
          /\ IF res.err = "nil"
             THEN dbPc' = "returned" /\ dbRet' = res
             ELSE dbPc' = "select" /\ dbRet' = dbRet
    /\ UNCHANGED <<ctxDone, helperPc>>
    /\ UNCHANGED <<dlqVars, dlqGhost, clVars>>

\* select { case <-ctx.Done(): return nil, ctx.Err(); default: cond.Wait() }
DBSelect ==
    /\ dbPc = "select"
    /\ IF ctxDone
       THEN dbPc' = "returned" /\ dbRet' = [item |-> NoItem, err |-> "context canceled"]
       ELSE dbPc' = "wait" /\ dbRet' = dbRet
    /\ UNCHANGED <<ctxDone, helperPc>>
    /\ UNCHANGED <<dlqVars, dlqGhost, clVars>>
    /\ UNCHANGED apqVars
    /\ UNCHANGED ghostVars

\* goroutine, case <-time.After(50 * time.Millisecond): if q.Size() > 0 {
\* (with an empty queue the tick changes nothing and the loop selects again)
HelperTick ==
    /\ helperPc = "poll"
    /\ Size > 0
    /\ helperPc' = "signal"
    /\ UNCHANGED <<ctxDone, dbPc, dbRet>>
    /\ UNCHANGED <<dlqVars, dlqGhost, clVars>>
    /\ UNCHANGED apqVars
    /\ UNCHANGED ghostVars

\* a Signal that wakes nobody
Wake_Lost(pc) == pc

\* cond.Signal() as the caller at pc sees it: it leaves cond.Wait() if it is
\* inside it
Wake(pc) == IF pc = "wait" THEN "dequeue" ELSE pc

\* goroutine, cond.Signal()
HelperSignal ==
    /\ helperPc = "signal"
    /\ helperPc' = "poll"
    /\ dbPc' = Wake(dbPc)
    /\ UNCHANGED <<ctxDone, dbRet>>
    /\ UNCHANGED <<dlqVars, dlqGhost, clVars>>
    /\ UNCHANGED apqVars
    /\ UNCHANGED ghostVars

\* goroutine, case <-ctx.Done(): return
HelperExit ==
    /\ helperPc = "poll"
    /\ ctxDone
    /\ helperPc' = "exited"
    /\ UNCHANGED <<ctxDone, dbPc, dbRet>>
    /\ UNCHANGED <<dlqVars, dlqGhost, clVars>>
    /\ UNCHANGED apqVars
    /\ UNCHANGED ghostVars

\* the owner of ctx cancels it
Cancel ==
    /\ ~ctxDone
    /\ ctxDone' = TRUE
    /\ UNCHANGED <<dbPc, helperPc, dbRet>>
    /\ UNCHANGED <<dlqVars, dlqGhost, clVars>>
    /\ UNCHANGED apqVars
    /\ UNCHANGED ghostVars

----------------------------------------------------------------------------
(* File-backed dead-letter queue (package dlq).                            *)
(*                                                                         *)
(* A segment name is <<"segment_", t, ".dlq">>, t the creation second.  A  *)
(* segment file is a record: the header fields magic, count and hash, the  *)
(* record region body, the modification time mtime, and the ghost sealed   *)
(* (finalizeSegment wrote the header of this file).  The body is a         *)
(* sequence of cells [size, frame, got]: size bytes of the 4-byte length   *)
(* prefix and got bytes of the compressed frame are on disk; only a crash  *)
(* leaves a last cell with size < 4 or got < frame.len.  An item is a      *)
(* record [data, clen]: data identifies its bytes, clen is the length of   *)
(* its zstd frame.  A byte stream is the sequence of the chunks written.   *)
(* SHA-256 is modelled as collision free: a digest is the stream it was    *)
(* computed from.  Of the I/O errors, StoreItemIO models a failing Write of *)
(* the length prefix and a failing Seek or Sync of the seal that follows   *)
(* the write; every other call takes the path on which I/O succeeds.       *)

Config1 == [Directory |-> "dlq", MaxSegmentMiB |-> 1]

magicBytes == <<"N", "R", "D", "Q", "v", "1">>
headerSize == 32
defaultReplayRateMiBps == 4
sizeBytesLen == 4
countBytesLen == 8

NoSegment == <<>>

\* fmt.Sprintf("segment_%s.dlq", timestamp), the timestamp has whole seconds
SegmentName(t) == <<"segment_", t, ".dlq">>

\* fs.compressor.EncodeAll(item, nil) and decoder.DecodeAll(compressedData, nil)
Compress(item) == [zstd |-> item.data, len |-> item.clen]
Decompress(frame) == [data |-> frame.zstd, clen |-> frame.len]

\* the bytes StoreItem writes for one record, and what is on disk of a cell
RecordCell(frame) == [size |-> sizeBytesLen, frame |-> frame, got |-> frame.len]
CellComplete(cell) == cell.size = sizeBytesLen /\ cell.got = cell.frame.len
CellBytes(cell) == cell.size + cell.got

SizeChunk(cell) == [kind |-> "size", frame |-> cell.frame, bytes |-> cell.size]
DataChunk(frame, n) == [kind |-> "data", frame |-> frame, bytes |-> n]

CellChunks(cell) ==
    <<SizeChunk(cell)>> \o
    (IF cell.got > 0 THEN <<DataChunk(cell.frame, cell.got)>> ELSE <<>>)

\* the bytes of a file after its header
RECURSIVE RegionBytes(_)
RegionBytes(body) ==
    IF body = <<>> THEN <<>>
    ELSE CellChunks(Head(body)) \o RegionBytes(Tail(body))

RECURSIVE BodySize(_)
BodySize(body) ==
    IF body = <<>> THEN 0 ELSE CellBytes(Head(body)) + BodySize(Tail(body))

\* os.Stat(segment).Size()
FileSize(f) == headerSize + BodySize(f.body)

\* sha256 digest of a stream, and its first n bytes
Sha256(stream) == [alg |-> "sha256", of |-> stream]
FirstBytes(digest, n) == [alg |-> digest.alg, of |-> digest.of, first |-> n]
ZeroBytes(n) == [alg |-> "zero", of |-> <<>>, first |-> n]

hashSize == headerSize - Len(magicBytes) - countBytesLen

\* what os.Create followed by the placeholder header leaves on disk
NewFile ==
    [magic |-> magicBytes, count |-> 0, hash |-> ZeroBytes(hashSize),
     body |-> <<>>, mtime |-> now, sealed |-> FALSE]

Put(fls, name, f) ==
    [n \in DOMAIN fls \cup {name} |-> IF n = name THEN f ELSE fls[n]]

\* the fields of fs that the segment operations read and write
FsState ==
    [files |-> files, currentSegment |-> currentSegment,
     currentSize |-> currentSize, currentItemCount |-> currentItemCount,
     pos |-> writePos,
     hasher |-> hasher]

FreshFs(fls) ==
    [files |-> fls, currentSegment |-> NoSegment, currentSize |-> 0,
     currentItemCount |-> 0, pos |-> 0, hasher |-> <<>>]

\* a seal that leaves the placeholder header
finalizeSegment_Placeholder(st) == st

\* finalizeSegment: seek to 0, write magic, count and hash[:hashSize], sync
finalizeSegment(st) ==
    [st EXCEPT !.files[st.currentSegment] =
        [@ EXCEPT !.magic = magicBytes,
                  !.count = st.currentItemCount,
                  !.hash = FirstBytes(Sha256(st.hasher), hashSize),
                  !.mtime = now,
                  !.sealed = TRUE],
              !.pos = 0]

\* rotateSegment: finalize and close the open file, create the next one
rotateSegment(st) ==
    LET st1 == IF st.currentSegment # NoSegment THEN finalizeSegment(st) ELSE st
        segmentPath == SegmentName(now)
    IN  [files |-> Put(st1.files, segmentPath, NewFile),
         currentSegment |-> segmentPath,
         currentSize |-> headerSize,
         currentItemCount |-> 0,
         pos |-> 0,
         hasher |-> <<>>]

rotateSegmentIfNeeded(st) ==
    IF st.currentSegment = NoSegment THEN rotateSegment(st) ELSE st

\* the size at which StoreItem rotates
MaxSegmentBytes(cfg) == cfg.MaxSegmentMiB * 1024 * 1024

NeedRotate(size, cfg) == size >= MaxSegmentBytes(cfg)

\* what is left of the cells behind the offset once n bytes were written
\* over them: a cell that is overwritten in part leaves a fragment without a
\* length prefix
RECURSIVE Remainder(_, _)
Remainder(cells, n) ==
    IF cells = <<>> \/ n = 0 THEN cells
    ELSE IF CellBytes(Head(cells)) <= n
         THEN Remainder(Tail(cells), n - CellBytes(Head(cells)))
         ELSE <<[size |-> 0, frame |-> Head(cells).frame,
                 got |-> CellBytes(Head(cells)) - n]>> \o Tail(cells)

\* currentSegment.Write at the offset of the handle: the file was opened by
\* os.Create, without O_APPEND, so that a write at an offset before the end
\* of the file replaces the bytes that are there
WriteAt(body, pos, cell) ==
    IF pos >= Len(body) THEN Append(body, cell)
    ELSE SubSeq(body, 1, pos) \o <<cell>> \o
         Remainder(SubSeq(body, pos + 1, Len(body)), CellBytes(cell))

\* the body of StoreItem between the two rotations
appendRecord(st, item) ==
    LET compressed == Compress(item)
    IN  [st EXCEPT !.hasher = Append(@, DataChunk(compressed, compressed.len)),
                   !.files[st.currentSegment].body =
                       WriteAt(@, st.pos, RecordCell(compressed)),
                   !.pos = @ + 1,
                   !.files[st.currentSegment].mtime = now,
                   !.currentSize = @ + sizeBytesLen + compressed.len,
                   !.currentItemCount = @ + 1]

\* os.ReadDir sorts by file name; every name ends in .dlq
RECURSIVE SortedNames(_)
SortedNames(S) ==
    IF S = {} THEN <<>>
    ELSE LET m == CHOOSE x \in S : \A y \in S : x[2] <= y[2]
         IN  <<m>> \o SortedNames(S \ {m})

listSegments(fls) == SortedNames({n \in DOMAIN fls : n[3] = ".dlq"})

Range(s) == {s[i] : i \in 1..Len(s)}

RECURSIVE SumSizes(_, _)
SumSizes(fls, S) ==
    IF S = {} THEN 0
    ELSE LET n == CHOOSE x \in S : TRUE
         IN  FileSize(fls[n]) + SumSizes(fls, S \ {n})

\* updateMetrics: the two gauges computed from the directory
UtilizationOf(fls, cfg) ==
    <<SumSizes(fls, DOMAIN fls), MaxSegmentBytes(cfg) * 100>>

OldestAgeOf(fls) ==
    IF DOMAIN fls = {} THEN 0
    ELSE now - (CHOOSE t \in {fls[n].mtime : n \in DOMAIN fls} :
                   \A n \in DOMAIN fls : t <= fls[n].mtime)

\* verifySegment(path): "nil" or the error
verifySegment(f) ==
    IF f.magic # magicBytes THEN "invalid magic bytes"
    ELSE IF FirstBytes(Sha256(RegionBytes(f.body)), hashSize) # f.hash
         THEN "hash verification failed"
         ELSE "nil"

\* the segments verifySegments reports: every listed file but the open one
FailedSegments(fls, cur) ==
    {n \in Range(listSegments(fls)) : n # cur /\ verifySegment(fls[n]) # "nil"}

NoDlqCall == [op |-> "none", err |-> "nil", segs |-> {}]

SetFs(st) ==
    /\ files' = st.files
    /\ currentSegment' = st.currentSegment
    /\ currentSize' = st.currentSize
    /\ currentItemCount' = st.currentItemCount
    /\ writePos' = st.pos
    /\ hasher' = st.hasher

\* NewFileStorage(config, logger): the defaults it fills in
defaultMaxSize == 128 * 1024 * 1024

NewFileStorage(config) ==
    IF config.MaxSegmentMiB <= 0
    THEN [config EXCEPT !.MaxSegmentMiB = defaultMaxSize \div (1024 * 1024)]
    ELSE config

fsConfig == NewFileStorage(Config1)

\* int64(defaultReplayRateMiBps * 1024 * 1024 * replayTokenInterval.Seconds()),
\* the interval being 10 ms: the product is truncated towards zero
bytesPerInterval == (defaultReplayRateMiBps * 1024 * 1024) \div 100

\* a replayLoop goroutine at its start; ticks and toggles count the ticks it
\* received, proc is the number of the process it runs in
NewWorker ==
    [pc |-> "select", processLive |-> TRUE, availableBytes |-> 0,
     cancelled |-> FALSE, segmentPath |-> NoSegment, ticks |-> 0, toggles |-> 0,
     proc |-> 0]

\* the goroutines of a process end with the process
KillAll(ws) ==
    [w \in DOMAIN ws |-> [ws[w] EXCEPT !.pc = IF @ = "exited" THEN @ ELSE "killed"]]

\* replayCancel()
CancelWorker(ws, w) ==
    IF w \in DOMAIN ws THEN [ws EXCEPT ![w].cancelled = TRUE] ELSE ws

DlqInit ==
    /\ files = << >>
    /\ now = 1
    /\ phase = "new"
    /\ currentSegment = NoSegment
    /\ currentSize = 0
    /\ currentItemCount = 0
    /\ writePos = 0
    /\ hasher = <<>>
    /\ replayQueue = <<>>
    /\ replayActive = FALSE
    /\ replayCancel = 0
    /\ workers = <<>>
    /\ corruptedTotal = 0
    /\ utilizationRatio = <<0, 1>>
    /\ oldestAgeSeconds = 0
    /\ nStore = 0
    /\ nReplay = 0
    /\ nStart = 0
    /\ stored = <<>>
    /\ sendLog = <<>>
    /\ replayLog = {}
    /\ dlqLast = NoDlqCall
    /\ crashLog = [proc |-> 0, recs |-> {}]

\* time passes
ClockTick ==
    /\ now' = now + 1
    /\ UNCHANGED <<files, phase, currentSegment, currentSize, currentItemCount,
                   writePos,
                   hasher, replayQueue, replayActive, replayCancel, workers,
                   corruptedTotal, utilizationRatio, oldestAgeSeconds>>
    /\ UNCHANGED dlqGhost

\* A process is started on the directory: NewFileStorage, then Start.  The
\* verification loop that Start launches is the action verifySegments.
Start ==
    /\ phase \in {"new", "stopped", "down"}
    /\ LET st == rotateSegmentIfNeeded(FreshFs(files))
       IN  /\ SetFs(st)
           /\ utilizationRatio' = UtilizationOf(st.files, fsConfig)
           /\ oldestAgeSeconds' = OldestAgeOf(st.files)
    /\ phase' = "running"
    /\ replayQueue' = <<>>
    /\ replayActive' = FALSE
    /\ replayCancel' = 0
    /\ workers' = KillAll(workers)
    /\ corruptedTotal' = 0
    /\ dlqLast' = NoDlqCall
    /\ nStart' = nStart + 1
    /\ UNCHANGED <<now, nStore, nReplay, stored, sendLog, replayLog, crashLog>>

\* Stop(ctx)
Stop ==
    /\ phase = "running"
    /\ workers' = IF replayActive /\ replayCancel # 0
                  THEN CancelWorker(workers, replayCancel)
                  ELSE workers
    /\ SetFs(IF currentSegment # NoSegment
             THEN [finalizeSegment(FsState) EXCEPT !.currentSegment = NoSegment]
             ELSE FsState)
    /\ phase' = "stopped"
    /\ dlqLast' = NoDlqCall
    /\ UNCHANGED <<now, replayQueue, replayActive, replayCancel, corruptedTotal,
                   utilizationRatio, oldestAgeSeconds>>
    /\ UNCHANGED <<nStore, nReplay, nStart, stored, sendLog, replayLog, crashLog>>

\* the I/O outcomes of a StoreItem call: every call succeeds, the Write of
\* the length prefix fails, or the Seek or the Sync of finalizeSegment fails
IoOutcomes == {"ok", "write", "seek", "sync"}

\* rotateSegment when finalizeSegment returns an error: the file stays open
\* and current.  A failing Seek leaves the offset where it was; a failing Sync
\* comes after the header was written, the offset is at the end of the header
rotateSegmentFailed(st, io) ==
    IF io = "sync" THEN finalizeSegment(st) ELSE st

\* what StoreItem returns
StoreItemErr(io) ==
    CASE io = "ok" -> "nil"
      [] io = "write" -> "failed to write item size"
      [] OTHER -> "failed to rotate segment"

\* StoreItem(item) with the I/O outcome io.  The code has no check of the
\* extension's state: after Stop, currentSegment is nil and the call opens a
\* segment as it does after Start.
StoreItemIO(item, io) ==
    /\ phase \in {"running", "stopped"}
    /\ io \in IoOutcomes
    /\ LET st1 == rotateSegmentIfNeeded(FsState)
           written == io # "write"
           st2 == IF written
                  THEN appendRecord(st1, item)
                  ELSE [st1 EXCEPT !.hasher =
                           Append(@, DataChunk(Compress(item), Compress(item).len))]
           rotate == written /\ NeedRotate(st2.currentSize, fsConfig)
           st3 == IF ~rotate THEN st2
                  ELSE IF io = "ok" THEN rotateSegment(st2)
                  ELSE rotateSegmentFailed(st2, io)
       IN  /\ io \in {"seek", "sync"} => rotate
           /\ SetFs(st3)
           /\ IF io = "ok"
              THEN /\ utilizationRatio' = UtilizationOf(st3.files, fsConfig)
                   /\ oldestAgeSeconds' = OldestAgeOf(st3.files)
              ELSE UNCHANGED <<utilizationRatio, oldestAgeSeconds>>
           /\ stored' = IF written
                        THEN Append(stored, [item |-> item, seg |-> st1.currentSegment])
                        ELSE stored
           /\ dlqLast' = IF io = "ok" THEN NoDlqCall
                         ELSE [op |-> "StoreItem", err |-> StoreItemErr(io), segs |-> {}]
    /\ nStore' = nStore + 1
    /\ UNCHANGED <<now, phase, replayQueue, replayActive, replayCancel, workers,
                   corruptedTotal>>
    /\ UNCHANGED <<nReplay, nStart, sendLog, replayLog, crashLog>>

\* StoreItem(item) when no I/O call fails
StoreItem(item) == StoreItemIO(item, "ok")

\* the complete records that are on disk, as [seg, item]
OnDisk(fls) ==
    UNION {{[seg |-> n, item |-> Decompress(fls[n].body[i].frame)] :
              i \in {j \in 1..Len(fls[n].body) : CellComplete(fls[n].body[j])}}
           : n \in DOMAIN fls}

\* what a StoreItem call that is cut short leaves behind the last record
TornCell(item, tail) ==
    LET compressed == Compress(item)
    IN  [size |-> sizeBytesLen, frame |-> compressed,
         got |-> IF tail = "size" THEN 0 ELSE compressed.len \div 2]

\* The process is killed: between calls (tail "none"), or inside StoreItem(item)
\* after the length prefix was written ("size") or with part of the frame
\* written ("part").
Crash(item, tail) ==
    /\ phase = "running"
    /\ phase' = "down"
    /\ IF tail = "none"
       THEN /\ files' = files
            /\ nStore' = nStore
       ELSE LET st1 == rotateSegmentIfNeeded(FsState)
            IN  /\ files' = [st1.files EXCEPT ![st1.currentSegment].body =
                                 WriteAt(@, st1.pos, TornCell(item, tail)),
                             ![st1.currentSegment].mtime = now]
                /\ nStore' = nStore + 1
    /\ crashLog' = [proc |-> nStart, recs |-> OnDisk(files)]
    /\ currentSegment' = NoSegment
    /\ currentSize' = 0
    /\ currentItemCount' = 0
    /\ writePos' = 0
    /\ hasher' = <<>>
    /\ replayQueue' = <<>>
    /\ replayActive' = FALSE
    /\ replayCancel' = 0
    /\ workers' = KillAll(workers)
    /\ dlqLast' = NoDlqCall
    /\ UNCHANGED <<now, corruptedTotal, utilizationRatio, oldestAgeSeconds>>
    /\ UNCHANGED <<nReplay, nStart, stored, sendLog, replayLog>>

\* verifySegments(), run by the verification loop on each tick.  It reads
\* fs.currentSegment without the mutex; the value it sees is the one before
\* or after a concurrent rotation, which is this action before or after it.
verifySegments ==
    /\ phase = "running"
    /\ LET failed == FailedSegments(files, currentSegment)
       IN  /\ corruptedTotal' = corruptedTotal + Cardinality(failed)
           /\ dlqLast' = [op |-> "verifySegments", err |-> "nil", segs |-> failed]
    /\ UNCHANGED <<files, now, phase, currentSegment, currentSize, currentItemCount,
                   writePos,
                   hasher, replayQueue, replayActive, replayCancel, workers,
                   utilizationRatio, oldestAgeSeconds>>
    /\ UNCHANGED <<nStore, nReplay, nStart, stored, sendLog, replayLog, crashLog>>

\* StartReplay refuses while fs.replayActive is set
ReplayBusy_Never(active) == FALSE

ReplayBusy(active) == active

\* StartReplay(ctx, callback)
StartReplay ==
    /\ phase = "running"
    /\ nReplay' = nReplay + 1
    /\ IF ReplayBusy(replayActive)
       THEN /\ dlqLast' = [op |-> "StartReplay", err |-> "replay already in progress",
                           segs |-> {}]
            /\ UNCHANGED <<replayQueue, replayActive, replayCancel, workers>>
       ELSE LET segments == listSegments(files)
            IN  IF segments = <<>>
                THEN /\ dlqLast' = [op |-> "StartReplay", err |-> "nil", segs |-> {}]
                     /\ UNCHANGED <<replayQueue, replayActive, replayCancel, workers>>
                ELSE /\ replayQueue' = segments
                     /\ replayActive' = TRUE
                     /\ replayCancel' = Len(workers) + 1
                     /\ workers' = Append(workers, [NewWorker EXCEPT !.proc = nStart])
                     /\ dlqLast' = [op |-> "StartReplay", err |-> "nil",
                                    segs |-> Range(segments)]
    /\ UNCHANGED <<files, now, phase, currentSegment, currentSize, currentItemCount,
                   writePos,
                   hasher, corruptedTotal, utilizationRatio, oldestAgeSeconds>>
    /\ UNCHANGED <<nStore, nStart, stored, sendLog, replayLog, crashLog>>

\* StopReplay()
StopReplay ==
    /\ phase = "running"
    /\ IF ~replayActive
       THEN /\ dlqLast' = [op |-> "StopReplay", err |-> "no replay in progress",
                           segs |-> {}]
            /\ UNCHANGED <<replayQueue, replayActive, workers>>
       ELSE /\ workers' = IF replayCancel # 0
                          THEN CancelWorker(workers, replayCancel)
                          ELSE workers
            /\ replayActive' = FALSE
            /\ replayQueue' = <<>>
            /\ dlqLast' = [op |-> "StopReplay", err |-> "nil", segs |-> {}]
    /\ UNCHANGED <<files, now, phase, currentSegment, currentSize, currentItemCount,
                   writePos,
                   hasher, replayCancel, corruptedTotal, utilizationRatio,
                   oldestAgeSeconds>>
    /\ UNCHANGED <<nStore, nReplay, nStart, stored, sendLog, replayLog, crashLog>>

\* processSomeItems(segmentPath, maxBytes, callback) from cell i on, the
\* failAt-th callback of the call failing (0: none).  The file is opened and
\* read from headerSize on every call.
RECURSIVE ScanItems(_, _, _, _, _, _)
ScanItems(body, i, processedBytes, maxBytes, failAt, sent) ==
    IF ~(processedBytes < maxBytes)
    THEN [processedBytes |-> processedBytes, done |-> FALSE, err |-> "nil", sent |-> sent]
    ELSE IF i > Len(body)
    THEN [processedBytes |-> processedBytes, done |-> TRUE, err |-> "nil", sent |-> sent]
    ELSE IF body[i].size < sizeBytesLen
    THEN [processedBytes |-> processedBytes, done |-> FALSE,
          err |-> "failed to read item size", sent |-> sent]
    ELSE IF body[i].got < body[i].frame.len
    THEN [processedBytes |-> processedBytes, done |-> FALSE,
          err |-> "failed to read item data", sent |-> sent]
    ELSE LET data == Decompress(body[i].frame)
         IN  IF Len(sent) + 1 = failAt
             THEN [processedBytes |-> processedBytes, done |-> FALSE,
                   err |-> "callback failed",
                   sent |-> Append(sent, [item |-> data, ok |-> FALSE])]
             ELSE ScanItems(body, i + 1,
                            processedBytes + sizeBytesLen + body[i].frame.len,
                            maxBytes, failAt,
                            Append(sent, [item |-> data, ok |-> TRUE]))

processSomeItems(fls, segmentPath, maxBytes, failAt) ==
    IF segmentPath \notin DOMAIN fls
    THEN [processedBytes |-> 0, done |-> TRUE, err |-> "failed to open segment",
          sent |-> <<>>]
    ELSE ScanItems(fls[segmentPath].body, 1, 0, maxBytes, failAt, <<>>)

Running(w) == w \in DOMAIN workers /\ workers[w].pc \notin {"exited", "killed"}

\* fs.replayQueue = fs.replayQueue[1:] when it is not empty
PopQueue(q) == IF Len(q) > 0 THEN Tail(q) ELSE q

\* replayLoop, case <-fs.replayCtx.Done()
ReplayCancelled(w) ==
    /\ Running(w)
    /\ workers[w].pc = "select"
    /\ workers[w].cancelled
    /\ replayActive' = FALSE
    /\ replayQueue' = <<>>
    /\ workers' = [workers EXCEPT ![w].pc = "exited"]
    /\ UNCHANGED <<files, now, phase, currentSegment, currentSize, currentItemCount,
                   writePos,
                   hasher, replayCancel, corruptedTotal, utilizationRatio,
                   oldestAgeSeconds>>
    /\ UNCHANGED dlqGhost

\* replayLoop, case <-toggleTicker.C
ReplayToggle(w) ==
    /\ Running(w)
    /\ workers[w].pc = "select"
    /\ workers' = [workers EXCEPT ![w].processLive = ~@, ![w].toggles = @ + 1]
    /\ UNCHANGED <<files, now, phase, currentSegment, currentSize, currentItemCount,
                   writePos,
                   hasher, replayQueue, replayActive, replayCancel, corruptedTotal,
                   utilizationRatio, oldestAgeSeconds>>
    /\ UNCHANGED dlqGhost

\* a worker that replays in its live phase too
SkipLive_Never(processLive) == FALSE

\* if processLive { continue }
SkipLive(processLive) == processLive

\* replayLoop, case <-tokenTicker.C, up to the inner loop
ReplayToken(w) ==
    /\ Running(w)
    /\ workers[w].pc = "select"
    /\ LET availableBytes == workers[w].availableBytes + bytesPerInterval
       IN  workers' = [workers EXCEPT
               ![w].availableBytes = availableBytes,
               ![w].ticks = @ + 1,
               ![w].pc = IF ~SkipLive(workers[w].processLive) /\ availableBytes > 0
                         THEN "next" ELSE "select"]
    /\ UNCHANGED <<files, now, phase, currentSegment, currentSize, currentItemCount,
                   writePos,
                   hasher, replayQueue, replayActive, replayCancel, corruptedTotal,
                   utilizationRatio, oldestAgeSeconds>>
    /\ UNCHANGED dlqGhost

\* inner loop, under the mutex: return when the queue is empty, else take its head
ReplayNext(w) ==
    /\ Running(w)
    /\ workers[w].pc = "next"
    /\ IF Len(replayQueue) = 0
       THEN /\ replayActive' = FALSE
            /\ replayQueue' = <<>>
            /\ workers' = [workers EXCEPT ![w].pc = "exited"]
       ELSE /\ workers' = [workers EXCEPT ![w].segmentPath = replayQueue[1],
                                          ![w].pc = "process"]
            /\ UNCHANGED <<replayQueue, replayActive>>
    /\ UNCHANGED <<files, now, phase, currentSegment, currentSize, currentItemCount,
                   writePos,
                   hasher, replayCancel, corruptedTotal, utilizationRatio,
                   oldestAgeSeconds>>
    /\ UNCHANGED dlqGhost

\* inner loop, the rest of the iteration: processSomeItems and what follows
\* it, without the history of the callback invocations
ReplayProcessFs(w, failAt) ==
    /\ Running(w)
    /\ workers[w].pc = "process"
    /\ LET segmentPath == workers[w].segmentPath
           r == processSomeItems(files, segmentPath, workers[w].availableBytes, failAt)
           availableBytes == workers[w].availableBytes - r.processedBytes
       IN  /\ IF r.err # "nil"
              THEN /\ replayQueue' = PopQueue(replayQueue)
                   /\ workers' = [workers EXCEPT ![w].pc = "select"]
              ELSE /\ replayQueue' = IF r.done THEN PopQueue(replayQueue)
                                     ELSE replayQueue
                   /\ workers' = [workers EXCEPT
                          ![w].availableBytes = availableBytes,
                          ![w].pc = IF availableBytes > 0 THEN "next" ELSE "select"]
    /\ UNCHANGED <<files, now, phase, currentSegment, currentSize, currentItemCount,
                   writePos,
                   hasher, replayActive, replayCancel, corruptedTotal,
                   utilizationRatio, oldestAgeSeconds>>
    /\ UNCHANGED <<nStore, nReplay, nStart, stored, dlqLast, crashLog>>

\* the same iteration with its history
ReplayProcess(w, failAt) ==
    /\ ReplayProcessFs(w, failAt)
    /\ LET segmentPath == workers[w].segmentPath
           r == processSomeItems(files, segmentPath, workers[w].availableBytes, failAt)
       IN  /\ sendLog' = sendLog \o
                  [k \in 1..Len(r.sent) |->
                      [w |-> w, seg |-> segmentPath, item |-> r.sent[k].item,
                       ok |-> r.sent[k].ok]]
           /\ replayLog' = replayLog \cup
                  {[w |-> w, seg |-> segmentPath, active |-> segmentPath = currentSegment,
                    done |-> r.done, err |-> r.err]}

----------------------------------------------------------------------------
(* Cardinality limiter (the cardinalitylimiter processor).                 *)
(*                                                                         *)
(* A batch (pmetric.Metrics) is the sequence of its data points in the     *)
(* order processMetrics visits them; a point is [metric, attrs], attrs the *)
(* attribute map as the sequence of its [k, v] entries in Range order.     *)
(* The number, histogram and summary variants of processDataPoints have    *)
(* the same body.  Scores and thresholds are fractions <<num, den>>.       *)
(* FNV-1a is modelled as collision free: a hash is the bytes it was fed.   *)

Rep(c, n) == [i \in 1..n |-> c]

CLConfig1 ==
    [MaxKeys |-> 2, HighScore |-> <<3, 4>>, CriticalScore |-> <<9, 10>>,
     AggregateLabels |-> << <<"t">> >>]

\* a >= b for fractions with positive denominators
GEq(a, b) == a[1] * b[2] >= b[1] * a[2]

\* newCardinalityLimiterProcessor(logger, config): the defaults it fills in
newCardinalityLimiterProcessor(config) ==
    [MaxKeys |-> IF config.MaxKeys <= 0 THEN 65536 ELSE config.MaxKeys,
     HighScore |-> IF config.HighScore[1] <= 0 THEN <<75, 100>> ELSE config.HighScore,
     CriticalScore |-> IF config.CriticalScore[1] <= 0 THEN <<90, 100>>
                       ELSE config.CriticalScore,
     AggregateLabels |-> config.AggregateLabels]

clConfig == newCardinalityLimiterProcessor(CLConfig1)

\* a Config with a critical score of 1.0, and one with negative thresholds
CLConfigOne == [CLConfig1 EXCEPT !.CriticalScore = <<1, 1>>]

CLConfigNeg == [CLConfig1 EXCEPT !.HighScore = <<-1, 2>>, !.CriticalScore = <<-1, 1>>]

\* the zero value of Config
NoConfig ==
    [MaxKeys |-> 0, HighScore |-> <<0, 1>>, CriticalScore |-> <<0, 1>>,
     AggregateLabels |-> <<>>]

\* (cfg *Config) Validate()
Validate(cfg) == "nil"

RECURSIVE TotalChars(_)
TotalChars(attrs) ==
    IF attrs = <<>> THEN 0
    ELSE Len(Head(attrs).k) + Len(Head(attrs).v) + TotalChars(Tail(attrs))

\* calculateEntropyScore(attrs): math.Min(1.0, totalChars/(100+attrCount*5))
calculateEntropyScore(attrs) ==
    LET attrCount == Len(attrs)
        totalChars == TotalChars(attrs)
        den == 100 + attrCount * 5
    IN  IF attrCount = 0 THEN <<0, 1>>
        ELSE IF totalChars >= den THEN <<1, 1>>
        ELSE <<totalChars, den>>

\* hashAttributes(attrs): key and value bytes in Range order, keys not sorted
RECURSIVE HashInput(_)
HashInput(attrs) ==
    IF attrs = <<>> THEN <<>>
    ELSE Head(attrs).k \o Head(attrs).v \o HashInput(Tail(attrs))

hashAttributes(attrs) == [fnv64a |-> HashInput(attrs)]

\* a removal that removes nothing
RemoveLabels_None(attrs, labels) == attrs

\* dp.Attributes().Remove(labelToRemove) for every aggregate label
RemoveLabels(attrs, labels) ==
    SelectSeq(attrs, LAMBDA a : \A i \in 1..Len(labels) : a.k # labels[i])

IsCritical(attrs, config) == GEq(calculateEntropyScore(attrs), config.CriticalScore)
IsHigh(attrs, config) == GEq(calculateEntropyScore(attrs), config.HighScore)

\* what the drop/aggregate decision leaves of the point's attributes
Decide(attrs, config) ==
    IF IsCritical(attrs, config) THEN attrs
    ELSE IF IsHigh(attrs, config) THEN RemoveLabels(attrs, config.AggregateLabels)
    ELSE attrs

\* p.keyMap[hash]++
Bump(km, hash) ==
    [h \in DOMAIN km \cup {hash} |->
        IF h = hash THEN (IF h \in DOMAIN km THEN km[h] + 1 ELSE 1) ELSE km[h]]

\* delete(p.keyMap, k)
Delete(km, k) == [h \in DOMAIN km \ {k} |-> km[h]]

\* the eviction test: len(p.keyMap) > p.config.MaxKeys
NeedEvict_Late(n, maxKeys) == n > maxKeys + 1

NeedEvict(n, maxKeys) == n > maxKeys

\* p.droppedSamples.WithLabelValues(metricName).Inc()
Inc(counter, label) ==
    [l \in DOMAIN counter \cup {label} |->
        IF l = label THEN (IF l \in DOMAIN counter THEN counter[l] + 1 ELSE 1)
        ELSE counter[l]]

Callers == {1, 2}

IdleCall == [active |-> FALSE, md |-> <<>>, i |-> 1]

CLInit ==
    /\ keyMap = << >>
    /\ droppedSamples = << >>
    /\ keysUsed = 0
    /\ calls = [p \in Callers |-> IdleCall]
    /\ returned = <<>>
    /\ pconfig = clConfig
    /\ startup = [cfg |-> CLConfig1, created |-> TRUE, err |-> "nil"]

\* the collector loads cfg: it validates it and, when that reports no error,
\* createMetricsProcessor builds the processor from it
createMetricsProcessor(cfg) ==
    /\ ~startup.created
    /\ startup.err = "none"
    /\ LET err == Validate(cfg)
       IN  IF err # "nil"
           THEN /\ startup' = [cfg |-> cfg, created |-> FALSE, err |-> err]
                /\ UNCHANGED pconfig
           ELSE /\ startup' = [cfg |-> cfg, created |-> TRUE, err |-> "nil"]
                /\ pconfig' = newCardinalityLimiterProcessor(cfg)
    /\ UNCHANGED <<keyMap, droppedSamples, keysUsed, calls, returned>>

\* processMetrics(ctx, md) is called by caller p
processMetrics(p, md) ==
    /\ startup.created
    /\ ~calls[p].active
    /\ calls' = [calls EXCEPT ![p] = [active |-> TRUE, md |-> md, i |-> 1]]
    /\ UNCHANGED <<keyMap, droppedSamples, keysUsed, returned, pconfig, startup>>

\* one iteration of the loop of processDataPoints; the key that the range
\* over the map yields first is any key of the map
processDataPoints(p) ==
    /\ calls[p].active
    /\ calls[p].i <= Len(calls[p].md)
    /\ LET dp == calls[p].md[calls[p].i]
           attrs == Decide(dp.attrs, pconfig)
           hash == hashAttributes(attrs)
           km == Bump(keyMap, hash)
       IN  /\ droppedSamples' = IF IsCritical(dp.attrs, pconfig)
                                THEN Inc(droppedSamples, dp.metric)
                                ELSE droppedSamples
           /\ calls' = [calls EXCEPT ![p].md[calls[p].i].attrs = attrs,
                                     ![p].i = @ + 1]
           /\ IF NeedEvict(Cardinality(DOMAIN km), pconfig.MaxKeys)
              THEN \E k \in DOMAIN km : keyMap' = Delete(km, k)
              ELSE keyMap' = km
    /\ UNCHANGED <<keysUsed, returned, pconfig, startup>>

\* the end of processMetrics: the gauge is set and md is returned
processMetricsReturn(p) ==
    /\ calls[p].active
    /\ calls[p].i > Len(calls[p].md)
    /\ keysUsed' = Cardinality(DOMAIN keyMap)
    /\ returned' = Append(returned, [p |-> p, md |-> calls[p].md])
    /\ calls' = [calls EXCEPT ![p] = IdleCall]
    /\ UNCHANGED <<keyMap, droppedSamples, pconfig, startup>>

----------------------------------------------------------------------------
(* Specifications *)

Init ==
    /\ NewAdaptivePriorityQueue(ConfigSmall)
    /\ GhostInit
    /\ BlockInit
    /\ DlqInit
    /\ CLInit

\* The sink is installed once.  SetSpillFunc writes q.spillFunc without the
\* queue mutex; an Enqueue racing with the installation reads nil or the sink,
\* which are the outcomes of running it before or after SetSpillFunc.
SetSpillFuncCall == \E f \in {"sink"} : SetSpillFunc(f)

EnqueueCall ==
    /\ nEnq < MaxEnq
    /\ \E s \in Payloads, sinkOk \in BOOLEAN : Enqueue(s, sinkOk)
    /\ UNCHANGED <<blockVars, dlqVars, dlqGhost, clVars>>

DequeueCall ==
    /\ nDeq < MaxDeq
    /\ Dequeue

Next == SetSpillFuncCall \/ EnqueueCall \/ DequeueCall

Spec == Init /\ [][Next]_vars

\* The scheduler under load: one payload per class, no spill sink
InitWRR ==
    /\ \E cfg \in {ConfigS1, ConfigSmall} : NewAdaptivePriorityQueue(cfg)
    /\ GhostInit
    /\ BlockInit
    /\ DlqInit
    /\ CLInit

EnqueueCallWRR ==
    /\ nEnq < MaxEnqW
    /\ \E s \in {<<"a">>, <<"b">>} : Enqueue(s, TRUE)
    /\ UNCHANGED <<blockVars, dlqVars, dlqGhost, clVars>>

DequeueCallWRR ==
    /\ nDeq < MaxDeqW
    /\ Dequeue

NextWRR == EnqueueCallWRR \/ DequeueCallWRR

SpecWRR == InitWRR /\ [][NextWRR]_vars

\* Scenario S2: the queue of capacity 20 is filled, overrun and drained a little
InitS2 ==
    /\ NewAdaptivePriorityQueue(ConfigS2)
    /\ GhostInit
    /\ BlockInit
    /\ DlqInit
    /\ CLInit

EnqueueCallS2 ==
    /\ nEnq < MaxEnqS2
    /\ \E sinkOk \in BOOLEAN : Enqueue(<<"c">>, sinkOk)
    /\ UNCHANGED <<blockVars, dlqVars, dlqGhost, clVars>>

DequeueCallS2 ==
    /\ nDeq < MaxDeqS2
    /\ Dequeue

NextS2 == SetSpillFuncCall \/ EnqueueCallS2 \/ DequeueCallS2

SpecS2 == InitS2 /\ [][NextS2]_vars

\* A DequeueBlocking call next to producers and a second, direct consumer
InitB ==
    /\ NewAdaptivePriorityQueue(ConfigSmall)
    /\ GhostInit
    /\ BlockInit
    /\ DlqInit
    /\ CLInit

EnqueueCallB ==
    /\ nEnq < MaxEnqB
    /\ \E s \in {<<"a">>, <<"b">>} : Enqueue(s, TRUE)
    /\ UNCHANGED <<blockVars, dlqVars, dlqGhost, clVars>>

DequeueCallB ==
    /\ nDeq < MaxDeqB
    /\ Dequeue

DBDequeueB ==
    /\ nDeq < MaxDeqB
    /\ DBDequeue

\* the steps of the DequeueBlocking call and of its goroutine
BlockingSteps == DBDequeue \/ DBSelect \/ HelperTick \/ HelperSignal \/ HelperExit

NextB ==
    \/ EnqueueCallB
    \/ DequeueCallB
    \/ DBCall
    \/ DBDequeueB
    \/ DBSelect
    \/ HelperTick
    \/ HelperSignal
    \/ HelperExit
    \/ Cancel

SpecBlocking == InitB /\ [][NextB]_vars

\* One DequeueBlocking call as the only consumer, its context never
\* cancelled; the caller and its goroutine keep running, and the 50 ms timer
\* of the goroutine keeps firing
InitWake ==
    /\ \E cfg \in {ConfigS1, ConfigSmall} : NewAdaptivePriorityQueue(cfg)
    /\ GhostInit
    /\ BlockInit
    /\ DlqInit
    /\ CLInit

EnqueueCallK ==
    /\ nEnq < MaxEnqK
    /\ \E s \in {<<"a">>, <<"b">>} : Enqueue(s, TRUE)
    /\ UNCHANGED <<blockVars, dlqVars, dlqGhost, clVars>>

NextWake ==
    \/ EnqueueCallK
    \/ DBCall
    \/ DBDequeue
    \/ DBSelect
    \/ HelperTick
    \/ HelperSignal

SpecWake ==
    /\ InitWake
    /\ [][NextWake]_vars
    /\ WF_vars(DBDequeue)
    /\ WF_vars(DBSelect)
    /\ WF_vars(HelperTick)
    /\ WF_vars(HelperSignal)

\* The dead-letter queue as a store: a process that stores items, is stopped,
\* killed and started again, with its verification loop
DlqItems(sizes) == {[data |-> <<"r", nStore + 1>>, clen |-> n] : n \in sizes}

InitDLQ ==
    /\ NewAdaptivePriorityQueue(ConfigSmall)
    /\ GhostInit
    /\ BlockInit
    /\ DlqInit
    /\ CLInit

ClockTickCall ==
    /\ now < MaxNow
    /\ ClockTick
    /\ UNCHANGED <<queueVars, clVars>>

StartCall ==
    /\ nStart < MaxStart
    /\ Start
    /\ UNCHANGED <<queueVars, clVars>>

StopCall ==
    /\ Stop
    /\ UNCHANGED <<queueVars, clVars>>

StoreItemCall ==
    /\ nStore < MaxStore
    /\ phase = "running"
    /\ \E item \in DlqItems({30000, 1048540}) : StoreItem(item)
    /\ UNCHANGED <<queueVars, clVars>>

CrashCall ==
    /\ nStore < MaxStore
    /\ \E item \in DlqItems({30000}), tail \in {"none", "size", "part"} :
          Crash(item, tail)
    /\ UNCHANGED <<queueVars, clVars>>

verifySegmentsCall ==
    /\ corruptedTotal < MaxCorrupted
    /\ verifySegments
    /\ UNCHANGED <<queueVars, clVars>>

NextStore ==
    \/ ClockTickCall
    \/ StartCall
    \/ StopCall
    \/ StoreItemCall
    \/ CrashCall
    \/ verifySegmentsCall

SpecStore == InitDLQ /\ [][NextStore]_vars

\* Replay sessions next to a process that stores items and is stopped and
\* started again
StoreItemCallR ==
    /\ nStore < MaxStoreR
    /\ phase = "running"
    /\ \E item \in DlqItems({30000}) : StoreItem(item)
    /\ UNCHANGED <<queueVars, clVars>>

StartReplayCall ==
    /\ nReplay < MaxStartReplay
    /\ StartReplay
    /\ UNCHANGED <<queueVars, clVars>>

StopReplayCall ==
    /\ StopReplay
    /\ UNCHANGED <<queueVars, clVars>>

\* the ticks all replay workers have received so far
RECURSIVE TotalTicks(_)
TotalTicks(ws) ==
    IF ws = <<>> THEN 0 ELSE Head(ws).ticks + TotalTicks(Tail(ws))

RECURSIVE TotalToggles(_)
TotalToggles(ws) ==
    IF ws = <<>> THEN 0 ELSE Head(ws).toggles + TotalToggles(Tail(ws))

ReplayCancelledStep ==
    /\ \E w \in DOMAIN workers : ReplayCancelled(w)
    /\ UNCHANGED <<queueVars, clVars>>

ReplayToggleStep ==
    /\ TotalToggles(workers) < MaxToggles
    /\ \E w \in DOMAIN workers : ReplayToggle(w)
    /\ UNCHANGED <<queueVars, clVars>>

ReplayTokenStep ==
    /\ TotalTicks(workers) < MaxTicks
    /\ \E w \in DOMAIN workers : ReplayToken(w)
    /\ UNCHANGED <<queueVars, clVars>>

ReplayNextStep ==
    /\ \E w \in DOMAIN workers : ReplayNext(w)
    /\ UNCHANGED <<queueVars, clVars>>

ReplayProcessStep ==
    /\ \E w \in DOMAIN workers, failAt \in 0..MaxFailAt : ReplayProcess(w, failAt)
    /\ UNCHANGED <<queueVars, clVars>>

NextReplay ==
    \/ ClockTickCall
    \/ StartCall
    \/ StopCall
    \/ StoreItemCallR
    \/ StartReplayCall
    \/ StopReplayCall
    \/ ReplayCancelledStep
    \/ ReplayToggleStep
    \/ ReplayTokenStep
    \/ ReplayNextStep
    \/ ReplayProcessStep

SpecReplay == InitDLQ /\ [][NextReplay]_vars

\* Crash and recovery: a process that stores items is killed, also inside
\* StoreItem, and a new process is started on the directory and replays it
NextCrash ==
    \/ ClockTickCall
    \/ StartCall
    \/ StoreItemCallR
    \/ CrashCall
    \/ StartReplayCall
    \/ ReplayToggleStep
    \/ ReplayTokenStep
    \/ ReplayNextStep
    \/ ReplayProcessStep

SpecCrash == InitDLQ /\ [][NextCrash]_vars

\* The sessions of one running process: it stores its items, then StartReplay
\* and StopReplay are called next to the replay workers
StoreItemCallS ==
    /\ nReplay = 0
    /\ StoreItemCallR

NextSession ==
    \/ StartCall
    \/ StoreItemCallS
    \/ StartReplayCall
    \/ StopReplayCall
    \/ ReplayCancelledStep
    \/ ReplayToggleStep
    \/ ReplayTokenStep
    \/ ReplayNextStep
    \/ ReplayProcessStep

SpecSession == InitDLQ /\ [][NextSession]_vars

\* A replay session that is left to run: items are stored before it starts,
\* the callback always succeeds, and the two tickers of replayLoop keep
\* firing.  The token ticker has a period of 10 ms and the toggle ticker one
\* of 500 ms: a toggle comes after 49 to 51 token ticks, counted in ticks.
\* The history of the callback invocations is not kept, so that a session
\* that repeats itself returns to the same state.
TicksPerToggle == 500 \div 10

\* a record that takes 60 token intervals
BigRecordLen == 60 * bytesPerInterval - sizeBytesLen

StoreItemCallD ==
    /\ nReplay = 0
    /\ nStore < MaxStoreR
    /\ phase = "running"
    /\ \E item \in DlqItems({BigRecordLen}) : StoreItem(item)
    /\ UNCHANGED <<queueVars, clVars>>

ReplayToggleTimed ==
    /\ \E w \in DOMAIN workers :
          /\ Running(w)
          /\ workers[w].pc = "select"
          /\ workers[w].ticks >= TicksPerToggle - 1
          /\ workers' = [workers EXCEPT ![w].processLive = ~@, ![w].ticks = 0]
    /\ UNCHANGED <<files, now, phase, currentSegment, currentSize, currentItemCount,
                   writePos,
                   hasher, replayQueue, replayActive, replayCancel, corruptedTotal,
                   utilizationRatio, oldestAgeSeconds>>
    /\ UNCHANGED <<dlqGhost, queueVars, clVars>>

ReplayTokenTimed ==
    /\ \E w \in DOMAIN workers :
          /\ workers[w].ticks <= TicksPerToggle
          /\ ReplayToken(w)
    /\ UNCHANGED <<queueVars, clVars>>

ReplayNextTimed ==
    /\ \E w \in DOMAIN workers : ReplayNext(w)
    /\ UNCHANGED <<queueVars, clVars>>

ReplayProcessTimed ==
    /\ \E w \in DOMAIN workers : ReplayProcessFs(w, 0)
    /\ UNCHANGED <<sendLog, replayLog, queueVars, clVars>>

NextDrain ==
    \/ ClockTickCall
    \/ StartCall
    \/ StoreItemCallD
    \/ StartReplayCall
    \/ ReplayToggleTimed
    \/ ReplayTokenTimed
    \/ ReplayNextTimed
    \/ ReplayProcessTimed

SpecDrain ==
    /\ InitDLQ
    /\ [][NextDrain]_vars
    /\ WF_vars(ReplayToggleTimed)
    /\ WF_vars(ReplayTokenTimed)
    /\ WF_vars(ReplayNextTimed)
    /\ WF_vars(ReplayProcessTimed)

\* The cardinality limiter under two concurrent callers
PtLowA == [metric |-> "m1", attrs |-> << [k |-> <<"h">>, v |-> <<"a">>] >>]
PtLowB == [metric |-> "m1", attrs |-> << [k |-> <<"h">>, v |-> <<"b">>] >>]
PtHigh == [metric |-> "m2", attrs |-> << [k |-> <<"h">>, v |-> <<"a">>],
                                         [k |-> <<"t">>, v |-> Rep("x", 80)] >>]
PtCrit == [metric |-> "m2", attrs |-> << [k |-> <<"h">>, v |-> Rep("z", 99)] >>]

CLBatches == {<<PtLowA>>, <<PtLowB, PtCrit>>, <<PtHigh>>}

InitCL ==
    /\ NewAdaptivePriorityQueue(ConfigSmall)
    /\ GhostInit
    /\ BlockInit
    /\ DlqInit
    /\ CLInit

CallsMade == Len(returned) + Cardinality({p \in Callers : calls[p].active})

processMetricsCall ==
    /\ CallsMade < MaxBatches
    /\ \E p \in Callers, md \in CLBatches : processMetrics(p, md)
    /\ UNCHANGED <<queueVars, dlqVars, dlqGhost>>

processDataPointsStep ==
    /\ \E p \in Callers : processDataPoints(p)
    /\ UNCHANGED <<queueVars, dlqVars, dlqGhost>>

processMetricsReturnStep ==
    /\ \E p \in Callers : processMetricsReturn(p)
    /\ UNCHANGED <<queueVars, dlqVars, dlqGhost>>

NextCL == processMetricsCall \/ processDataPointsStep \/ processMetricsReturnStep

SpecCL == InitCL /\ [][NextCL]_vars

\* The cardinality limiter from the loading of its configuration on
PtMax == [metric |-> "m2", attrs |-> << [k |-> <<"h">>, v |-> Rep("z", 104)] >>]
PtAB  == [metric |-> "m1", attrs |-> << [k |-> <<"h">>, v |-> <<"a">>],
                                        [k |-> <<"u">>, v |-> <<"b">>] >>]
PtBA  == [metric |-> "m1", attrs |-> << [k |-> <<"u">>, v |-> <<"b">>],
                                        [k |-> <<"h">>, v |-> <<"a">>] >>]

CLConfigs == {CLConfig1, CLConfigOne, CLConfigNeg}

CLBatchesStart == {<<PtMax>>, <<PtAB>>, <<PtBA>>, <<PtLowA, PtLowB>>}

InitCLStart ==
    /\ NewAdaptivePriorityQueue(ConfigSmall)
    /\ GhostInit
    /\ BlockInit
    /\ DlqInit
    /\ keyMap = << >>
    /\ droppedSamples = << >>
    /\ keysUsed = 0
    /\ calls = [p \in Callers |-> IdleCall]
    /\ returned = <<>>
    /\ pconfig = NoConfig
    /\ startup = [cfg |-> NoConfig, created |-> FALSE, err |-> "none"]

createMetricsProcessorCall ==
    /\ \E cfg \in CLConfigs : createMetricsProcessor(cfg)
    /\ UNCHANGED <<queueVars, dlqVars, dlqGhost>>

processMetricsCallStart ==
    /\ CallsMade < MaxBatches
    /\ \E p \in Callers, md \in CLBatchesStart : processMetrics(p, md)
    /\ UNCHANGED <<queueVars, dlqVars, dlqGhost>>

NextCLStart ==
    \/ createMetricsProcessorCall
    \/ processMetricsCallStart
    \/ processDataPointsStep
    \/ processMetricsReturnStep

SpecCLStart == InitCLStart /\ [][NextCLStart]_vars

----------------------------------------------------------------------------
(* Properties *)

Classes == 0..(NumClasses - 1)

\* The items of class c that are queued, head first
QueuedSet == UNION {{queues[i][j] : j \in 1..Len(queues[i])} : i \in 1..NumClasses}

\* An Enqueue call has just been made by this step
EnqueueStep == nEnq' = nEnq + 1

\* The free ratio (capacity - total)/capacity, compared exactly with 1/20
FreeBelowThreshold(total) == 20 * (capacity - total) < capacity
FreeAtThreshold(total)    == 20 * (capacity - total) = capacity

\* C1: size() never exceeds capacity, whatever Enqueue, Dequeue and
\* SetSpillFunc calls were made on the fresh queue.
C1_SizeWithinCapacity == Size <= capacity

\* an Enqueue was turned away or spilled while the queue held capacity items
C1_Witness ==
    /\ Size = capacity
    /\ last.op = "Enqueue"
    /\ last.total = capacity
    /\ nDeq > 0

IsPrefix(s, t) == Len(s) <= Len(t) /\ SubSeq(t, 1, Len(s)) = s

\* Every Dequeue call so far found all classes non-empty
BacklogFromStart == nDeq = Len(window)

\* C2: with classes [A weight 3, B weight 1] and capacity 100 and a backlog
\* in both classes, the first 8 dequeues serve the classes A A A B A A A B.
C2_S1Order ==
    (capacity = 100 /\ weights = <<3, 1>> /\ BacklogFromStart)
        => IsPrefix(SubSeq(window, 1, IF Len(window) < 8 THEN Len(window) ELSE 8),
                    <<0, 0, 0, 1, 0, 0, 0, 1>>)

RECURSIVE SumSeq(_, _)
SumSeq(w, i) == IF i = 0 THEN 0 ELSE w[i] + SumSeq(w, i - 1)
SumW == SumSeq(weights, Len(weights))

CountIn(s, c) == Cardinality({k \in 1..Len(s) : s[k] = c})

\* C3: under sustained backlog in all classes, every run of SumW consecutive
\* dequeues holds exactly weights[c] items of each class c.
C3_WindowShare ==
    \A k \in 1..(Len(window) - SumW + 1) :
        \A c \in Classes :
            CountIn(SubSeq(window, k, k + SumW - 1), c) = weights[c + 1]

\* a full window that does not start at the first dequeue, after the
\* scheduler had already run without backlog
C3_Witness ==
    /\ Len(window) > SumW
    /\ nDeq > Len(window)

\* C4 as stated: an Enqueue made when the free ratio is exactly 0.05 (a sink
\* being set) hands the item to the sink and leaves the queue as it was.
C4_SpillAtExactThreshold ==
    [][(EnqueueStep /\ FreeAtThreshold(Size) /\ spillFunc # "nil")
          => (queues' = queues /\ Len(sinkLog') = Len(sinkLog) + 1)]_vars

\* C4 amended: an Enqueue made when the free ratio is exactly 0.05 admits the
\* item: it is appended to its class queue, the sink is not invoked and no
\* spill is counted; the item is spilled only when the ratio is below 0.05.
C4_AdmitAtExactThreshold ==
    [][(EnqueueStep /\ FreeAtThreshold(Size))
          => /\ last'.err = "nil"
             /\ queues' = [queues EXCEPT ![last'.cls + 1] = Append(@, last'.item)]
             /\ sinkLog' = sinkLog
             /\ spillTotal' = spillTotal]_vars

\* capacity 20 with 19 items queued, a sink set, and the 20th item taken
C4_Witness ==
    /\ capacity = 20
    /\ last.op = "Enqueue"
    /\ last.total = 19
    /\ spillFunc # "nil"
    /\ Size = 20

\* C5: at the spill threshold with a sink set, Enqueue invokes the sink once
\* with the item; when the sink accepts it Enqueue reports success, the spill
\* counter of the item's class goes up by one, no other counter moves, and
\* the queues and size() stay as they were.  With capacity 20 and one class
\* the first 20 items are queued and the 21st is spilled.
C5_SpillStep ==
    [][(EnqueueStep /\ FreeBelowThreshold(Size) /\ spillFunc # "nil")
          => /\ Len(sinkLog') = Len(sinkLog) + 1
             /\ SubSeq(sinkLog', 1, Len(sinkLog)) = sinkLog
             /\ sinkLog'[Len(sinkLog')].item = last'.item
             /\ sinkLog'[Len(sinkLog')].ok
                  => /\ last'.err = "nil"
                     /\ spillTotal' = [spillTotal EXCEPT
                                          ![classNames[last'.cls + 1]] = @ + 1]
                     /\ queues' = queues
                     /\ getTotalSize(queues') = getTotalSize(queues)]_vars

C5_Scenario ==
    (capacity = 20 /\ nDeq = 0)
        => /\ nEnq <= 20 => Size = nEnq
           /\ (nEnq = 21 /\ last.spilled)
                 => (Size = 20 /\ spillTotal["normal"] = 1 /\ Len(sinkLog) = 1)

C5_SpillOnce == C5_SpillStep /\ []C5_Scenario

\* the 21st item of scenario S2 went to the sink
C5_Witness ==
    /\ capacity = 20
    /\ nDeq = 0
    /\ nEnq = 21
    /\ last.spilled
    /\ spillTotal["normal"] = 1

\* C6: Enqueue returns an error only at the spill threshold, with no sink set
\* or with a sink that answered with an error, and then the class queues, the
\* scheduler state and the spill counters are unchanged.
C6_RejectedNoChange ==
    [][(EnqueueStep /\ last'.err # "nil")
          => /\ FreeBelowThreshold(Size)
             /\ \/ spillFunc = "nil" /\ sinkLog' = sinkLog
                \/ /\ spillFunc # "nil"
                   /\ Len(sinkLog') = Len(sinkLog) + 1
                   /\ ~sinkLog'[Len(sinkLog')].ok
             /\ UNCHANGED <<queues, currentClass, remainingTokens, spillTotal>>]_vars

\* the sink refused an item of a full queue while the scheduler held tokens
\* of a class
C6_Witness ==
    /\ last.op = "Enqueue"
    /\ last.err = "failed to spill item"
    /\ last.total = capacity
    /\ remainingTokens > 0

Occurrences(item) ==
    Cardinality({<<i, j>> \in (1..NumClasses) \X (1..capacity + 1) :
                    j <= Len(queues[i]) /\ queues[i][j] = item})
      + Cardinality({k \in 1..Len(dequeued) : dequeued[k].item = item})

\* C7: every admitted item is, unchanged, either still queued or has been
\* returned by exactly one Dequeue; nothing else is queued or returned; and a
\* successful Dequeue returns an item that was queued.
C7_Lossless ==
    /\ \A k \in 1..Len(admitted) : Occurrences(admitted[k]) = 1
    /\ Size + Len(dequeued) = Len(admitted)
    /\ \A x \in QueuedSet : \E k \in 1..Len(admitted) : admitted[k] = x
    /\ \A d \in 1..Len(dequeued) : \E k \in 1..Len(admitted) : admitted[k] = dequeued[d].item
    /\ Size = 0 => {dequeued[d].item : d \in 1..Len(dequeued)}
                     = {admitted[k] : k \in 1..Len(admitted)}

\* items of both classes were admitted and all of them came back
C7_Witness ==
    /\ Size = 0
    /\ Len(dequeued) >= 3
    /\ \E d, e \in 1..Len(dequeued) : dequeued[d].cls # dequeued[e].cls
    /\ nEnq > Len(admitted)

\* The ids of the items of class c in the order in which they leave the queue:
\* those already dequeued, then those still queued
ServiceOrder(c) ==
    LET F[k \in 0..Len(dequeued)] ==
            IF k = 0 THEN << >>
            ELSE IF dequeued[k].cls = c THEN Append(F[k - 1], dequeued[k].item.id)
            ELSE F[k - 1]
    IN  F[Len(dequeued)] \o [j \in 1..Len(queues[c + 1]) |-> queues[c + 1][j].id]

\* C8: within a class, items leave the queue in the order of their Enqueue
\* calls (ids number the Enqueue calls).
C8_FifoWithinClass ==
    \A c \in Classes :
        \A i, j \in 1..Len(ServiceOrder(c)) :
            i < j => ServiceOrder(c)[i] < ServiceOrder(c)[j]

\* two items of one class were dequeued with another class served in between
C8_Witness ==
    \E i, j, k \in 1..Len(dequeued) :
        /\ i < j /\ j < k
        /\ dequeued[i].cls = dequeued[k].cls
        /\ dequeued[j].cls # dequeued[i].cls

\* The class the specification assigns to a projection: the first class, in
\* configuration order, whose pattern matches, the last class when none does
FirstMatch(s) ==
    LET hits == {c \in Classes : MatchString(classPatterns[c + 1], s)}
    IN  IF hits = {} THEN NumClasses - 1
        ELSE CHOOSE c \in hits : \A d \in hits : c <= d

\* C9: every item is queued in, served from, and its spill counted under, the
\* class FirstMatch gives to its projection.
C9_Classification ==
    /\ \A c \in Classes :
          \A j \in 1..Len(queues[c + 1]) : FirstMatch(queues[c + 1][j].str) = c
    /\ \A d \in 1..Len(dequeued) : FirstMatch(dequeued[d].item.str) = dequeued[d].cls
    /\ last.op = "Enqueue" => last.cls = FirstMatch(last.item.str)
    /\ \A c \in Classes :
          spillTotal[classNames[c + 1]] =
              Cardinality({k \in 1..Len(sinkLog) :
                              sinkLog[k].ok /\ FirstMatch(sinkLog[k].item.str) = c})

\* an item matching both patterns sits in the first class, one matching no
\* pattern in the last, and an item matching no pattern was spilled
C9_Witness ==
    /\ \E j \in 1..Len(queues[1]) : queues[1][j].str = <<"a", "b">>
    /\ \E j \in 1..Len(queues[NumClasses]) : queues[NumClasses][j].str = <<"c">>
    /\ last.spilled
    /\ last.item.str = <<"c">>
    /\ spillTotal[classNames[NumClasses]] = 1

\* C10: a DequeueBlocking call that waits and whose ctx has been cancelled
\* returns by itself: as long as it waits, a step of the call or of its
\* goroutine remains possible, so that it is never left waiting for good.
C10_CancelledWaitReturns ==
    (dbPc = "wait" /\ ctxDone) => ENABLED BlockingSteps

----------------------------------------------------------------------------
(* Properties of the dead-letter queue *)

\* C11: every sealed segment that was not modified since it was sealed
\* verifies: the digest recomputed over everything after the header equals
\* the digest stored in the header, so verification does not report it.
C11_IntactSealedVerifies ==
    \A n \in DOMAIN files : files[n].sealed => verifySegment(files[n]) = "nil"

\* C12: when verifySegments has completed, no sealed segment that failed the
\* hash comparison is left among the .dlq files of the directory (it was
\* moved to quarantine/), so a later StartReplay does not enumerate it.
C12_MismatchQuarantined ==
    dlqLast.op = "verifySegments" =>
        \A n \in dlqLast.segs :
            ~(n \in Range(listSegments(files)) /\ files[n].sealed)

\* the callback invocations of worker w, in order
SessionSends(w) == SelectSeq(sendLog, LAMBDA e : e.w = w)

AllOk(w) == \A i \in 1..Len(SessionSends(w)) : SessionSends(w)[i].ok

\* worker w ran to the end of its queue
Completed(w) == workers[w].pc = "exited" /\ ~workers[w].cancelled

\* the number of the StoreItem call that appended the record
StoreIndex(item) == item.data[2]

\* C13: in a session whose callback always succeeds the records are passed to
\* the callback in append order, none of them twice: the StoreItem numbers of
\* the payloads a worker sends increase strictly.
C13_ReplayInAppendOrder ==
    \A w \in DOMAIN workers :
        AllOk(w) =>
            \A i, j \in 1..Len(SessionSends(w)) :
                i < j => StoreIndex(SessionSends(w)[i].item)
                            < StoreIndex(SessionSends(w)[j].item)

\* C14: a segment, not the open one, whose records a worker has all sent
\* successfully (processSomeItems reached its end) no longer exists.
C14_DeletedWhenSent ==
    \A e \in replayLog :
        (e.done /\ e.err = "nil" /\ ~e.active /\ AllOk(e.w)
            /\ \E i \in 1..Len(sendLog) : sendLog[i].w = e.w /\ sendLog[i].seg = e.seg)
        => e.seg \notin DOMAIN files

\* C15: after a failed callback the worker's next callback is for the same
\* record of the same segment, and a worker does not run to the end of its
\* queue with a failed callback as its last one.
C15_RetryFailedRecord ==
    \A w \in DOMAIN workers :
        \A i \in 1..Len(SessionSends(w)) :
            ~SessionSends(w)[i].ok =>
                IF i < Len(SessionSends(w))
                THEN /\ SessionSends(w)[i + 1].item = SessionSends(w)[i].item
                     /\ SessionSends(w)[i + 1].seg = SessionSends(w)[i].seg
                ELSE ~Completed(w)

\* C16: no processSomeItems call of a replay worker reads the segment that is
\* open for append at that moment.
C16_ActiveNotReplayed == \A e \in replayLog : ~e.active

\* C17: a StartReplay call made while fs.replayActive is set returns the busy
\* error and leaves the replay queue, the flag, the cancel handle and the
\* workers as they were: no worker is added.
C17_BusyChangesNothing ==
    [][(nReplay' = nReplay + 1 /\ replayActive) =>
          /\ dlqLast'.op = "StartReplay"
          /\ dlqLast'.err = "replay already in progress"
          /\ UNCHANGED <<replayQueue, replayActive, replayCancel, workers>>]_vars

C17_Witness ==
    /\ dlqLast.op = "StartReplay"
    /\ dlqLast.err = "replay already in progress"
    /\ replayActive
    /\ \E w \in DOMAIN workers : Running(w) /\ workers[w].ticks > 0

\* C18: every payload passed to the callback is a record StoreItem wrote
\* completely, and a session of the process started after a crash that ran to
\* the end of its queue with a callback that always succeeded has delivered
\* every record that was completely on disk at the crash.
C18_CrashRecovery ==
    /\ \A i \in 1..Len(sendLog) :
           \E k \in 1..Len(stored) : stored[k].item = sendLog[i].item
    /\ \A w \in DOMAIN workers :
           (workers[w].proc > crashLog.proc /\ crashLog.proc > 0
               /\ Completed(w) /\ AllOk(w))
           => \A rec \in crashLog.recs :
                  \E i \in 1..Len(SessionSends(w)) : SessionSends(w)[i].item = rec.item

----------------------------------------------------------------------------
(* Properties of the cardinality limiter *)

\* the points processDataPoints has handled so far, as they are now
ProcessedPoints ==
    UNION {Range(returned[r].md) : r \in 1..Len(returned)}
    \cup UNION {{calls[p].md[j] : j \in 1..(calls[p].i - 1)} : p \in Callers}

\* C19: the key table never holds more than MaxKeys entries: after every
\* processed data point, whichever caller processed it, and in the gauge
\* that processMetrics sets when it returns.
C19_KeysWithinMax ==
    /\ Cardinality(DOMAIN keyMap) <= clConfig.MaxKeys
    /\ keysUsed <= clConfig.MaxKeys

C19_Witness ==
    /\ Cardinality(DOMAIN keyMap) = clConfig.MaxKeys
    /\ keysUsed = clConfig.MaxKeys
    /\ \A p \in Callers : calls[p].active /\ calls[p].i > 1
    /\ \E pt \in ProcessedPoints : hashAttributes(pt.attrs) \notin DOMAIN keyMap

\* the critical points of md[1..n] that belong to metric m
RECURSIVE CountCritical(_, _, _)
CountCritical(md, n, m) ==
    IF n = 0 THEN 0
    ELSE CountCritical(md, n - 1, m)
         + (IF md[n].metric = m /\ IsCritical(md[n].attrs, clConfig) THEN 1 ELSE 0)

RECURSIVE CountReturned(_, _)
CountReturned(n, m) ==
    IF n = 0 THEN 0
    ELSE CountReturned(n - 1, m) + CountCritical(returned[n].md, Len(returned[n].md), m)

RECURSIVE CountInCalls(_, _)
CountInCalls(S, m) ==
    IF S = {} THEN 0
    ELSE LET p == CHOOSE x \in S : TRUE
         IN  CountCritical(calls[p].md, calls[p].i - 1, m) + CountInCalls(S \ {p}, m)

DroppedOf(m) == IF m \in DOMAIN droppedSamples THEN droppedSamples[m] ELSE 0

\* C20: a point whose score is at least CriticalScore is not in the batch
\* that processMetrics returns, and the dropped-samples counter of its metric
\* counts every such point exactly once.
C20_CriticalDropped ==
    /\ \A r \in 1..Len(returned) :
           \A j \in 1..Len(returned[r].md) :
               ~IsCritical(returned[r].md[j].attrs, clConfig)
    /\ \A m \in {"m1", "m2"} :
           DroppedOf(m) = CountReturned(Len(returned), m) + CountInCalls(Callers, m)

\* caller p's step handles the point dp of its batch
Handles(p, dp) ==
    /\ calls[p].active
    /\ calls[p].i <= Len(calls[p].md)
    /\ calls'[p].active
    /\ calls'[p].i = calls[p].i + 1
    /\ dp = calls[p].md[calls[p].i]

\* C21: processing a point whose score is at least CriticalScore leaves the
\* key table as it was: no entry is created, counted up or evicted for it.
C21_DroppedLeavesTable ==
    [][\A p \in Callers :
          \A dp \in Range(calls[p].md) :
              (Handles(p, dp) /\ IsCritical(dp.attrs, pconfig)) => keyMap' = keyMap]_vars

\* C22: with a CriticalScore of 1.0 the dropped-samples counter never
\* counts a point, whatever its attributes, and every point is returned.
C22_NoDropAtOne ==
    (startup.created /\ pconfig.CriticalScore = <<1, 1>>)
    => /\ DOMAIN droppedSamples = {}
       /\ \A r \in 1..Len(returned) :
              \E md \in CLBatchesStart : Len(returned[r].md) = Len(md)

\* C23: two processed points that hold the same (key, value) pairs have the
\* same hash, in whatever order their attributes were inserted, so that the
\* key table never holds two entries for one set of pairs.
C23_HashIgnoresOrder ==
    \A pt1, pt2 \in ProcessedPoints :
        Range(pt1.attrs) = Range(pt2.attrs)
        => hashAttributes(pt1.attrs) = hashAttributes(pt2.attrs)

\* a threshold below zero
Invalid(cfg) == cfg.HighScore[1] < 0 \/ cfg.CriticalScore[1] < 0

\* C24: a Config with a negative threshold is reported as an error when
\* it is loaded and no processor is created from it.
C24_InvalidConfigRejected ==
    (startup.err # "none" /\ Invalid(startup.cfg))
    => (startup.err # "nil" /\ ~startup.created)

\* C29: when an admitted point misses on a key table that holds MaxKeys
\* entries, the table afterwards holds the point's hash and has lost exactly
\* one of the entries it held before.
C29_VictimNotNew ==
    [][\A p \in Callers :
          \A dp \in Range(calls[p].md) :
              (/\ Handles(p, dp)
               /\ ~IsCritical(dp.attrs, pconfig)
               /\ hashAttributes(Decide(dp.attrs, pconfig)) \notin DOMAIN keyMap
               /\ Cardinality(DOMAIN keyMap) = pconfig.MaxKeys)
              => /\ hashAttributes(Decide(dp.attrs, pconfig)) \in DOMAIN keyMap'
                 /\ Cardinality(DOMAIN keyMap \ DOMAIN keyMap') = 1]_vars

\* C25: a Dequeue call made while the queue holds an item returns an item.
C25_DequeueReturnsItem ==
    (last.op = "Dequeue" /\ last.total > 0) => last.err = "nil"

\* C30: a class that is non-empty at every one of SumW consecutive Dequeue
\* calls is served by at least one of them, whatever is enqueued in between;
\* with the first-in first-out order inside a class, every queued item is
\* therefore returned after a bounded number of Dequeue calls.
C30_NoStarvation ==
    \A i \in DOMAIN unserved : unserved[i] < SumW

\* a class has waited through the full quantum of the other class while
\* that class was being refilled
C30_Witness ==
    /\ \E i \in DOMAIN unserved : unserved[i] = SumW - weights[i]
    /\ nEnq > NumClasses
    /\ last.op = "Dequeue"
    /\ last.err = "nil"

\* C26: at most one replayLoop goroutine is running at any time, and while
\* the goroutine of a session that was not cancelled is running, the state of
\* its session has not been reset by anyone else.
C26_OneReplayWorker ==
    /\ Cardinality({w \in DOMAIN workers : Running(w)}) <= 1
    /\ \A w \in DOMAIN workers :
           (Running(w) /\ ~workers[w].cancelled) => replayActive

\* C27: no step truncates or replaces a segment file that exists: every
\* file keeps its name, the records it holds and its seal, whenever the next
\* segment is created.
C27_SegmentsKept ==
    [][\A n \in DOMAIN files :
          /\ n \in DOMAIN files'
          /\ IsPrefix(files[n].body, files'[n].body)
          /\ files[n].sealed => files'[n].sealed]_vars

\* C28: when the callback always succeeds and nothing is stored after the
\* session has started, a replay session that is active eventually is not:
\* its queue drains and its goroutine sets replayActive to false.
C28_SessionEnds == replayActive ~> ~replayActive

\* C31: a DequeueBlocking call that is trying, or waiting, while the queue
\* holds an item and nobody else dequeues eventually returns an item, whether
\* the item was enqueued before or after the caller entered cond.Wait().
C31_WakeUpNotLost ==
    (dbPc \in {"dequeue", "select", "wait"} /\ Size > 0)
        ~> (dbPc = "returned" /\ dbRet.err = "nil")

\* the call has returned an item after a Dequeue of its own had failed
C31_Witness ==
    /\ dbPc = "returned"
    /\ dbRet.err = "nil"
    /\ dbRet.item # NoItem
    /\ nDeq > 1

\* C38: remainingTokens is at least 0 and at most the weight of the current
\* class, and currentClass is the index of a class, after every Enqueue and
\* every Dequeue, failed ones included.
C38_TokensWithinWeight ==
    /\ currentClass \in Classes
    /\ remainingTokens >= 0
    /\ remainingTokens <= weights[currentClass + 1]

\* a Dequeue has just failed on a non-empty queue and left tokens behind
C38_Witness ==
    /\ last.op = "Dequeue"
    /\ last.err = "selected queue is empty"
    /\ remainingTokens > 0

\* C40: when DequeueBlocking has returned an item and its context is not
\* cancelled, the goroutine it started is able to end at its select.
C40_HelperStops ==
    (dbPc = "returned" /\ dbRet.err = "nil" /\ ~ctxDone /\ helperPc = "poll")
        => ENABLED HelperExit

\* C34: a run of verifySegments that follows another one, the files being
\* the same, counts no segment again: dlq_corrupted_total stays as it was.
C34_CountedOnce ==
    [][(dlqLast.op = "verifySegments" /\ dlqLast'.op = "verifySegments"
           /\ files' = files)
          => corruptedTotal' = corruptedTotal]_vars

\* the attributes of dp whose key is not an aggregate label
KeptAttrs(dp) ==
    {a \in Range(dp.attrs) :
        \A i \in 1..Len(pconfig.AggregateLabels) : a.k # pconfig.AggregateLabels[i]}

\* the key-table operation of the step is made under hash h: no other key
\* is created or counted up, and h, if it is in the table, has one hit more
TrackedUnder(h) ==
    /\ \A k \in DOMAIN keyMap' \ {h} : k \in DOMAIN keyMap /\ keyMap'[k] = keyMap[k]
    /\ h \in DOMAIN keyMap' =>
           keyMap'[h] = (IF h \in DOMAIN keyMap THEN keyMap[h] ELSE 0) + 1

\* C37: a point whose score is at least HighScore and below CriticalScore
\* loses exactly the attributes named in AggregateLabels, keeps the others in
\* their order, stays in the batch and is tracked under the hash of what is
\* left; a point whose score is below HighScore keeps all its attributes and
\* is tracked under their hash.
C37_AggregateLabelsRemoved ==
    [][\A p \in Callers :
          \A dp \in Range(calls[p].md) :
              (Handles(p, dp) /\ ~IsCritical(dp.attrs, pconfig))
              => LET out == calls'[p].md[calls[p].i]
                 IN  /\ Len(calls'[p].md) = Len(calls[p].md)
                     /\ out.metric = dp.metric
                     /\ TrackedUnder(hashAttributes(out.attrs))
                     /\ IF IsHigh(dp.attrs, pconfig)
                        THEN /\ Range(out.attrs) = KeptAttrs(dp)
                             /\ Len(out.attrs) = Cardinality(KeptAttrs(dp))
                        ELSE out.attrs = dp.attrs]_vars

\* a point that lost its aggregate label has been returned and its reduced
\* attribute set is in the key table
C37_Witness ==
    \E r \in 1..Len(returned) :
        \E j \in 1..Len(returned[r].md) :
            /\ returned[r].md[j].metric = PtHigh.metric
            /\ Len(returned[r].md[j].attrs) < Len(PtHigh.attrs)
            /\ hashAttributes(returned[r].md[j].attrs) \in DOMAIN keyMap

\* C39: a step in which a replay worker invokes the callback or takes
\* bytes from its token budget is made with processLive false.
C39_LivePhaseSendsNothing ==
    [][\A w \in DOMAIN workers :
          (\/ Len(SessionSends(w))' > Len(SessionSends(w))
           \/ workers'[w].availableBytes < workers[w].availableBytes)
          => (~workers[w].processLive /\ ~workers'[w].processLive)]_vars

\* a worker that let a token tick pass in its live phase has sent a record
\* in its replay phase
C39_Witness ==
    \E w \in DOMAIN workers :
        /\ Len(SessionSends(w)) > 0
        /\ workers[w].toggles = 1
        /\ workers[w].ticks = 2
        /\ ~workers[w].processLive

\* a StoreItem call that returned nil: the call is counted, the process is
\* still up and no error is left as the last result
StoreItemOk ==
    /\ nStore' = nStore + 1
    /\ phase' = phase
    /\ dlqLast'.op # "StoreItem"

\* C36: after every StoreItem that returns nil there is one active segment,
\* it is below MaxSegmentMiB in size, and every other segment file is sealed
C36_OneActiveBelowMax ==
    [][StoreItemOk =>
          /\ currentSegment' # NoSegment
          /\ currentSegment' \in DOMAIN files'
          /\ ~files'[currentSegment'].sealed
          /\ currentSize' < MaxSegmentBytes(fsConfig)
          /\ FileSize(files'[currentSegment']) < MaxSegmentBytes(fsConfig)
          /\ \A n \in DOMAIN files' \ {currentSegment'} : files'[n].sealed]_vars

(***************************************************************************)
(* Shutdown: Stop with and without an active replay session, and the       *)
(* StoreItem calls that arrive after it.                                   *)
(***************************************************************************)
StoreItemCallP ==
    /\ nStore < MaxStore
    /\ \E item \in DlqItems({30000}) : StoreItem(item)
    /\ UNCHANGED <<queueVars, clVars>>

NextStop ==
    \/ ClockTickCall
    \/ StartCall
    \/ StopCall
    \/ StoreItemCallP
    \/ StartReplayCall
    \/ ReplayCancelledStep

SpecStop == InitDLQ /\ [][NextStop]_vars

\* a step of Stop
StopStep == phase = "running" /\ phase' = "stopped"

StoreItemIOCall ==
    /\ nStore < MaxStore
    /\ phase = "running"
    /\ \E item \in DlqItems({30000, 1048540}), io \in IoOutcomes :
          StoreItemIO(item, io)
    /\ UNCHANGED <<queueVars, clVars>>

NextIO ==
    \/ ClockTickCall
    \/ StartCall
    \/ StopCall
    \/ StoreItemIOCall

SpecIO == InitDLQ /\ [][NextIO]_vars

\* the file of segment seg was created again under the same name (C27)
Recreated(seg) ==
    /\ currentSegment' = seg
    /\ files'[seg].body = <<>>
    /\ ~files'[seg].sealed

\* C32: a StoreItem call leaves every record that was in the active segment
\* where it was: the records of the segment before the call are a prefix of
\* its records after the call
C32_AppendOnly ==
    [][(nStore' = nStore + 1 /\ phase' = phase /\ currentSegment # NoSegment) =>
          \/ IsPrefix(files[currentSegment].body, files'[currentSegment].body)
          \/ Recreated(currentSegment)]_vars

\* C33: when StoreItem returns an error, the record of the call is in no
\* segment
C33_ErrorMeansNotStored ==
    [][(nStore' = nStore + 1 /\ dlqLast'.op = "StoreItem" /\ dlqLast'.err # "nil") =>
          \A rec \in OnDisk(files') : rec.item.data # <<"r", nStore'>>]_vars

====
